---- MODULE Spec2Model ----
(***************************************************************************)
(* Model of the graph executor: a DAG of nodes stored in a shared-memory   *)
(* mapping, executed by several worker processes that synchronise through  *)
(* a reader/writer lock built from two named counting semaphores.          *)
(*                                                                         *)
(* The specifications share the variables and the lock actions:            *)
(*   LockSpec    - processes that take and release the read and the write  *)
(*                 lock in any order (shared_memory/rwlock.rs as used by   *)
(*                 PosixSharedMemory::read and ::write);                   *)
(*   FairLockSpec - LockSpec with weakly fair processes;                   *)
(*   SeqSpec     - the same lock functions called one after another;       *)
(*   Spec        - the workers' scheduler loop                             *)
(*                 (DirectedAcyclicGraph::execute) on the same lock steps; *)
(*   FairSpec    - Spec on one graph with strongly fair workers;           *)
(*   ForeignSpec - Spec and a process that writes the mapping itself;      *)
(*   CellSpec    - read, write and compare-and-swap on the byte cells of   *)
(*                 the mapping (read_from_shm, write_to_shm);              *)
(*   StartSpec   - PosixSharedMemory::new, ::open and the drop of the      *)
(*                 mapping, step by step;                                  *)
(*   GraphSpec   - the functions of graph_structure/ (new, printing,       *)
(*                 from_str, get_executable_node_indices, Node::execute)   *)
(*                 applied to inputs drawn from bounded sets;              *)
(*   StatusSpec  - graphs taken through the status changes of scheduling,  *)
(*                 printed and parsed back;                                *)
(*   PrefixSpec  - the creation of the mapping at the entry of execute()   *)
(*                 with the texts of its errors, for bounded prefixes;     *)
(*   AbortSpec   - Spec with workers that return an error between the      *)
(*                 claim of a node and its commit;                         *)
(*   UpdateSpec  - shm_compare_node_execution_status_and_update called     *)
(*                 with any node and any new status;                       *)
(*   ShmMappingSpec - read, write and write_on_equal_to_shm of the mapping *)
(*                 of the dag crate.                                       *)
(* Every semaphore operation is one step, so every interleaving of the     *)
(* try_wait/post probes of different processes is explored.                *)
(***************************************************************************)
EXTENDS Integers, Sequences, FiniteSets, TLC

VARIABLES
    pc,         \* pc[p]: the step process p executes next
    at,         \* at[p]: the call site in execute() of p's current mapping operation
    att,        \* att[p]: the mapping (named after its creator) whose write_lock
                \* semaphore p holds a handle of, 0 = none
    attRc,      \* attRc[p]: the mapping whose read_count semaphore p holds a handle of
    wl,         \* wl[m]: value of the semaphore /{prefix}_write_lock of mapping m
    rc,         \* rc[m]: value of the semaphore /{prefix}_read_count of mapping m
    shm,        \* shm[m]: the graph stored in the cells of mapping m (node -> status)
    linked,     \* the mapping the name /{prefix}_write_lock refers to, 0 = no such name
    linkedRc,   \* the mapping the name /{prefix}_read_count refers to, 0 = no such name
    self,       \* self[p]: the worker's own DirectedAcyclicGraph (node -> status)
    node,       \* node[p]: node_index / child_index of the current compare-and-update
    queue,      \* queue[p]: children_indeces of the sweep
    got,        \* got[p]: the graph read under the write lock by the compare-and-update
    execCount,  \* execCount[m][n]: calls of Node::execute on node n by workers of mapping m
    claimedBy,  \* claimedBy[m][n]: workers whose claim of n (to Executing) returned None
    edges,      \* the edge list of the input graph, a sequence of <<parent, child>>
    objs,       \* objs[o]: the byte held by cell object o (objects outlive their names)
    named,      \* named[i]: the cell object the name {prefix}_i refers to, 0 = no such name
    hnd,        \* hnd[p]: data_storages of p's mapping, the cell objects p holds handles of
    bytes,      \* bytes[p]: the local byte vector of read_from_shm / write_to_shm
    off,        \* off[p]: the offset of the write loop of write_to_shm
    arg,        \* arg[p]: the arguments of p's current mapping operation (exp, new), the
                \* number of writes completed when it was called (seen) and the number
                \* of handles p held when it entered write_to_shm (held)
                \* (in SeqSpec: the lock function p called and the values of the two
                \* semaphores at the call)
    stored,     \* the data of the most recently completed write_to_shm
    hist,       \* the data of the completed calls of write_to_shm, in their order
    ops,        \* mapping operations called so far
    nodes,      \* the argument nodes of DirectedAcyclicGraph::new (key -> Node)
    edgeVec,    \* the argument edges of DirectedAcyclicGraph::new (<<parent, child>> keys)
    dag,        \* the Result returned by DirectedAcyclicGraph::new
    text,       \* a DOT text: the printed graph, or the text given to from_str
    parsed,     \* the Result returned by DirectedAcyclicGraph::from_str(text)
    ret         \* the value returned by the last method called on the graph or a node

cellVars == <<objs, named, hnd, bytes, off, arg, stored, hist, ops>>

graphVars == <<nodes, edgeVec, dag, text, parsed, ret>>

\* No value: the function has not been called.
NoValue == [tag |-> "none"]

\* The graph-structure variables of the specifications that call none of its functions.
GraphIdle ==
    /\ nodes = <<>>
    /\ edgeVec = <<>>
    /\ dag = NoValue
    /\ text = <<>>
    /\ parsed = NoValue
    /\ ret = NoValue

vars == <<pc, at, att, attRc, wl, rc, shm, linked, linkedRc, self, node, queue, got,
          execCount, claimedBy, edges, graphVars, cellVars>>

schedVars == <<at, att, attRc, shm, linked, linkedRc, self, node, queue, got,
               execCount, claimedBy, edges, graphVars, cellVars>>

(***************************************************************************)
(* Bounds of the model.                                                    *)
(***************************************************************************)
NumProcs == 3       \* processes of LockSpec
NumWorkers == 2     \* workers of Spec
NumNodes == 3       \* nodes of the input graph, ordinals 0 .. NumNodes-1
MaxEdges == 2       \* edges of the input graph

Procs == 1..NumProcs
Workers == 1..NumWorkers
Nodes == 0..(NumNodes - 1)

(***************************************************************************)
(* Named semaphore (shared_memory/semaphore.rs).  The value of a semaphore *)
(* is a natural number; wait blocks at 0, try_wait reports whether it      *)
(* decremented.                                                            *)
(***************************************************************************)
SemCanWait(v) == v > 0
SemWait(v) == v - 1
SemTryWaitOk(v) == v > 0
SemTryWait(v) == IF v > 0 THEN v - 1 ELSE v
SemPost(v) == v + 1

WriteLockInitial == 1
ReadCountInitial == 0

(***************************************************************************)
(* rwlock::read_lock                                                       *)
(***************************************************************************)
ReadLockWait(p) ==
    /\ pc[p] = "rl_wait"
    /\ SemCanWait(wl[att[p]])
    /\ wl' = [wl EXCEPT ![att[p]] = SemWait(@)]
    /\ pc' = [pc EXCEPT ![p] = "rl_try"]
    /\ UNCHANGED rc

ReadLockTry(p) ==
    /\ pc[p] = "rl_try"
    /\ pc' = [pc EXCEPT ![p] = IF SemTryWaitOk(rc[attRc[p]]) THEN "rl_corr" ELSE "rl_post"]
    /\ rc' = [rc EXCEPT ![attRc[p]] = SemTryWait(@)]
    /\ UNCHANGED wl

\* Variant of read_lock that does not post read_count after a successful probe.
ReadLockNoCorrect(p) ==
    /\ pc[p] = "rl_corr"
    /\ pc' = [pc EXCEPT ![p] = "rl_post"]
    /\ UNCHANGED <<wl, rc>>

ReadLockCorrect(p) ==
    /\ pc[p] = "rl_corr"
    /\ rc' = [rc EXCEPT ![attRc[p]] = SemPost(@)]
    /\ pc' = [pc EXCEPT ![p] = "rl_post"]
    /\ UNCHANGED wl

ReadLockRegister(p) ==
    /\ pc[p] = "rl_post"
    /\ rc' = [rc EXCEPT ![attRc[p]] = SemPost(@)]
    /\ pc' = [pc EXCEPT ![p] = "rl_rel"]
    /\ UNCHANGED wl

ReadLockRelease(p) ==
    /\ pc[p] = "rl_rel"
    /\ wl' = [wl EXCEPT ![att[p]] = SemPost(@)]
    /\ pc' = [pc EXCEPT ![p] = "rd_held"]
    /\ UNCHANGED rc

(***************************************************************************)
(* rwlock::read_unlock.  "ru_err" is the return of the error "Decrementing *)
(* read_count semaphore ..., which is equal to 0".                         *)
(***************************************************************************)
ReadUnlockTry(p) ==
    /\ pc[p] = "ru_try"
    /\ pc' = [pc EXCEPT ![p] = IF SemTryWaitOk(rc[attRc[p]]) THEN "ru_probe" ELSE "ru_err"]
    /\ rc' = [rc EXCEPT ![attRc[p]] = SemTryWait(@)]
    /\ UNCHANGED wl

ReadUnlockProbe(p) ==
    /\ pc[p] = "ru_probe"
    /\ pc' = [pc EXCEPT ![p] = IF SemTryWaitOk(rc[attRc[p]]) THEN "ru_corr" ELSE "ru_ret"]
    /\ rc' = [rc EXCEPT ![attRc[p]] = SemTryWait(@)]
    /\ UNCHANGED wl

ReadUnlockCorrect(p) ==
    /\ pc[p] = "ru_corr"
    /\ rc' = [rc EXCEPT ![attRc[p]] = SemPost(@)]
    /\ pc' = [pc EXCEPT ![p] = "ru_ret"]
    /\ UNCHANGED wl

(***************************************************************************)
(* rwlock::write_lock and rwlock::write_unlock                             *)
(***************************************************************************)
\* Variant of the first step of write_lock that does not block on write_lock.
WriteLockWaitNoBlock(p) ==
    /\ pc[p] = "wl_wait"
    /\ wl' = [wl EXCEPT ![att[p]] = SemTryWait(@)]
    /\ pc' = [pc EXCEPT ![p] = "wl_try"]
    /\ UNCHANGED rc

WriteLockWait(p) ==
    /\ pc[p] = "wl_wait"
    /\ SemCanWait(wl[att[p]])
    /\ wl' = [wl EXCEPT ![att[p]] = SemWait(@)]
    /\ pc' = [pc EXCEPT ![p] = "wl_try"]
    /\ UNCHANGED rc

WriteLockTry(p) ==
    /\ pc[p] = "wl_try"
    /\ pc' = [pc EXCEPT ![p] = IF SemTryWaitOk(rc[attRc[p]]) THEN "wl_corr" ELSE "wr_held"]
    /\ rc' = [rc EXCEPT ![attRc[p]] = SemTryWait(@)]
    /\ UNCHANGED wl

WriteLockCorrect(p) ==
    /\ pc[p] = "wl_corr"
    /\ rc' = [rc EXCEPT ![attRc[p]] = SemPost(@)]
    /\ pc' = [pc EXCEPT ![p] = "wl_try"]
    /\ UNCHANGED wl

\* Variant of write_unlock that returns without the post on write_lock.
WriteUnlockNoPost(p) ==
    /\ pc[p] = "wu_post"
    /\ pc' = [pc EXCEPT ![p] = "wu_ret"]
    /\ UNCHANGED <<wl, rc>>

WriteUnlock(p) ==
    /\ pc[p] = "wu_post"
    /\ wl' = [wl EXCEPT ![att[p]] = SemPost(@)]
    /\ pc' = [pc EXCEPT ![p] = "wu_ret"]
    /\ UNCHANGED rc

\* One step of any of the four lock functions by process p.
LockStep(p) ==
    \/ ReadLockWait(p)
    \/ ReadLockTry(p)
    \/ ReadLockCorrect(p)
    \/ ReadLockRegister(p)
    \/ ReadLockRelease(p)
    \/ ReadUnlockTry(p)
    \/ ReadUnlockProbe(p)
    \/ ReadUnlockCorrect(p)
    \/ WriteLockWait(p)
    \/ WriteLockTry(p)
    \/ WriteLockCorrect(p)
    \/ WriteUnlock(p)

\* read_lock() has returned to p and p has not yet called read_unlock().
HoldsRead(p) ==
    \/ pc[p] = "rd_held"
    \/ pc[p] \in {"rfs_len", "rfs_data", "rfs_pop"} /\ at[p] \in {"read", "open"}
\* write_lock() has returned to p and p has not yet called write_unlock().
HoldsWrite(p) ==
    \/ pc[p] \in {"wr_held", "cas_write"}
    \/ /\ pc[p] \in {"rfs_len", "rfs_data", "rfs_pop", "wts", "wts_pop", "wts_err"}
       /\ at[p] \in {"write", "cas"}

(***************************************************************************)
(* LockSpec: every process calls the mapping's read (read_lock, read the   *)
(* cells, read_unlock) and write (write_lock, write the cells,             *)
(* write_unlock) in any order; an error returned by a lock function ends   *)
(* the process, as the ? operator does in PosixSharedMemory::read.         *)
(***************************************************************************)
LockInit ==
    /\ pc = [p \in Procs |-> "idle"]
    /\ att = [p \in Procs |-> 1]
    /\ attRc = [p \in Procs |-> 1]
    /\ wl = [m \in {1} |-> WriteLockInitial]
    /\ rc = [m \in {1} |-> ReadCountInitial]
    /\ at = [p \in Procs |-> "none"]
    /\ shm = <<>>
    /\ linked = 1
    /\ linkedRc = 1
    /\ self = <<>>
    /\ node = <<>>
    /\ queue = <<>>
    /\ got = <<>>
    /\ execCount = <<>>
    /\ claimedBy = <<>>
    /\ edges = <<>>
    /\ GraphIdle
    /\ objs = <<>>
    /\ named = <<>>
    /\ hnd = <<>>
    /\ bytes = <<>>
    /\ off = <<>>
    /\ arg = <<>>
    /\ stored = <<>>
    /\ hist = <<>>
    /\ ops = 0

MappingReadCall(p) ==
    /\ pc[p] = "idle"
    /\ pc' = [pc EXCEPT ![p] = "rl_wait"]
    /\ UNCHANGED <<wl, rc>>

MappingReadBody(p) ==
    /\ pc[p] = "rd_held"
    /\ pc' = [pc EXCEPT ![p] = "ru_try"]
    /\ UNCHANGED <<wl, rc>>

MappingReadReturn(p) ==
    /\ pc[p] = "ru_ret"
    /\ pc' = [pc EXCEPT ![p] = "idle"]
    /\ UNCHANGED <<wl, rc>>

MappingWriteCall(p) ==
    /\ pc[p] = "idle"
    /\ pc' = [pc EXCEPT ![p] = "wl_wait"]
    /\ UNCHANGED <<wl, rc>>

MappingWriteBody(p) ==
    /\ pc[p] = "wr_held"
    /\ pc' = [pc EXCEPT ![p] = "wu_post"]
    /\ UNCHANGED <<wl, rc>>

MappingWriteReturn(p) ==
    /\ pc[p] = "wu_ret"
    /\ pc' = [pc EXCEPT ![p] = "idle"]
    /\ UNCHANGED <<wl, rc>>

LockNext ==
    \E p \in Procs :
        /\ UNCHANGED schedVars
        /\ \/ LockStep(p)
           \/ MappingReadCall(p)
           \/ MappingReadBody(p)
           \/ MappingReadReturn(p)
           \/ MappingWriteCall(p)
           \/ MappingWriteBody(p)
           \/ MappingWriteReturn(p)

LockSpec == LockInit /\ [][LockNext]_vars

\* The steps a process takes once it has called read or write: the steps of the lock
\* functions and, after read_lock() or write_lock() has returned, the call of the
\* unlock function and its return.
LockRun(p) ==
    /\ UNCHANGED schedVars
    /\ \/ LockStep(p)
       \/ MappingReadBody(p)
       \/ MappingReadReturn(p)
       \/ MappingWriteBody(p)
       \/ MappingWriteReturn(p)

\* LockSpec with processes that keep running: a process that can take a step
\* (it is not blocked in a wait) is eventually scheduled, so every holder of a lock
\* eventually calls the unlock function and every loop goes on.
FairLockSpec == LockSpec /\ \A p \in Procs : WF_vars(LockRun(p))

(***************************************************************************)
(* SeqSpec: the processes of LockSpec, but the lock functions run one      *)
(* after another as in the test tests::rwlock: a lock function is called   *)
(* only while no other process is inside one.  A process may hold a lock   *)
(* while another one calls.  arg[p] notes, for the latest call only, the   *)
(* function called and the values of the two semaphores at the call.       *)
(***************************************************************************)
NoCall == [fn |-> "none", wl |-> 0, rc |-> 0]

\* p is inside a lock function, or at its return.
InLockCall(p) == pc[p] \notin {"idle", "rd_held", "wr_held"}

SeqInit ==
    /\ pc = [p \in Procs |-> "idle"]
    /\ att = [p \in Procs |-> 1]
    /\ attRc = [p \in Procs |-> 1]
    /\ wl = [m \in {1} |-> WriteLockInitial]
    /\ rc = [m \in {1} |-> ReadCountInitial]
    /\ at = [p \in Procs |-> "none"]
    /\ arg = [p \in Procs |-> NoCall]
    /\ shm = <<>>
    /\ linked = 1
    /\ linkedRc = 1
    /\ self = <<>>
    /\ node = <<>>
    /\ queue = <<>>
    /\ got = <<>>
    /\ execCount = <<>>
    /\ claimedBy = <<>>
    /\ edges = <<>>
    /\ GraphIdle
    /\ objs = <<>>
    /\ named = <<>>
    /\ hnd = <<>>
    /\ bytes = <<>>
    /\ off = <<>>
    /\ stored = <<>>
    /\ hist = <<>>
    /\ ops = 0

seqIdle == <<at, att, attRc, shm, linked, linkedRc, self, node, queue, got, execCount,
             claimedBy, edges, graphVars, objs, named, hnd, bytes, off, stored, hist, ops>>

\* p calls the lock function fn, whose first step is at entry, from the place from.
SeqCall(p, fn, from, entry) ==
    /\ pc[p] = from
    /\ \A q \in Procs : q # p => ~InLockCall(q)
    /\ pc' = [pc EXCEPT ![p] = entry]
    /\ arg' = [q \in Procs |->
                 IF q = p THEN [fn |-> fn, wl |-> wl[att[p]], rc |-> rc[attRc[p]]]
                 ELSE NoCall]
    /\ UNCHANGED <<wl, rc>>

\* read_unlock or write_unlock has returned Ok to p.
SeqReturn(p) ==
    /\ pc[p] \in {"ru_ret", "wu_ret"}
    /\ pc' = [pc EXCEPT ![p] = "idle"]
    /\ UNCHANGED <<wl, rc, arg>>

SeqNext ==
    \E p \in Procs :
        /\ UNCHANGED seqIdle
        /\ \/ SeqCall(p, "read_lock", "idle", "rl_wait")
           \/ SeqCall(p, "read_unlock", "rd_held", "ru_try")
           \/ SeqCall(p, "write_lock", "idle", "wl_wait")
           \/ SeqCall(p, "write_unlock", "wr_held", "wu_post")
           \/ LockStep(p) /\ UNCHANGED arg
           \/ SeqReturn(p)

SeqSpec == SeqInit /\ [][SeqNext]_vars

(***************************************************************************)
(* The graph (graph_structure/).  A graph value is a function from the     *)
(* node ordinals to execution statuses; payloads and edges never change    *)
(* after construction, the edge list is the variable edges.                *)
(***************************************************************************)
Statuses == {"NonExecutable", "Executable", "Executing", "Executed"}
NoGraph == <<>>
NoNode == -1

\* Position of a status in the order of Node::execution_status's documentation.
StatusRank(s) ==
    CASE s = "NonExecutable" -> 0
      [] s = "Executable" -> 1
      [] s = "Executing" -> 2
      [] s = "Executed" -> 3

EdgePairs == {e \in Nodes \X Nodes : e[1] # e[2]}

RECURSIVE ReachIn(_, _, _, _)
ReachIn(es, a, b, k) ==
    IF k = 0 THEN FALSE
    ELSE \E i \in 1..Len(es) :
            /\ es[i][1] = a
            /\ (es[i][2] = b \/ ReachIn(es, es[i][2], b, k - 1))

\* Acyclic::try_from_graph accepts the edge list.
IsAcyclic(es) == \A n \in Nodes : ~ReachIn(es, n, n, NumNodes)

\* The input graphs: every acyclic list of at most MaxEdges distinct edges.
EdgeLists ==
    {es \in UNION {[1..k -> EdgePairs] : k \in 0..MaxEdges} :
        /\ \A i \in 1..Len(es), j \in 1..Len(es) : i # j => es[i] # es[j]
        /\ IsAcyclic(es)}

\* Node::new gives Executable.
NodeNewStatus == "Executable"

\* Variant of new() that leaves the child of an edge Executable.
NewStatusesAllExecutable(es) == [n \in Nodes |-> NodeNewStatus]

\* DirectedAcyclicGraph::new: the child of every accepted edge is NonExecutable.
NewStatuses(es) ==
    [n \in Nodes |->
        IF \E i \in 1..Len(es) : es[i][2] = n THEN "NonExecutable" ELSE NodeNewStatus]

\* get_parent_node_indices
Parents(c) == {edges[i][1] : i \in {j \in 1..Len(edges) : edges[j][2] = c}}

\* get_child_node_indices: the outgoing neighbours, most recently added edge first.
RECURSIVE ChildrenOf(_, _)
ChildrenOf(es, n) ==
    IF es = <<>> THEN <<>>
    ELSE LET rest == ChildrenOf(Tail(es), n)
         IN  IF Head(es)[1] = n THEN Append(rest, Head(es)[2]) ELSE rest

\* get_executable_node_index: the first node, by ordinal, that is Executable.
GetExecutableNodeIndex(g) ==
    IF \E n \in Nodes : g[n] = "Executable"
    THEN CHOOSE n \in Nodes :
            /\ g[n] = "Executable"
            /\ \A k \in Nodes : g[k] = "Executable" => n <= k
    ELSE NoNode

\* Variant: a graph counts as executed as soon as no node is waiting.
IsGraphExecutedLoose(g) == \A n \in Nodes : g[n] \in {"Executing", "Executed"}

\* is_graph_executed
IsGraphExecuted(g) == \A n \in Nodes : g[n] = "Executed"

\* The sweep's classification of the parents of child c in graph g.
AllExecutedOrExecuting(g, c) == \A p \in Parents(c) : g[p] \in {"Executed", "Executing"}

\* Variant: a parent still Executing counts as Executed.
AllExecutedLoose(g, c) == \A p \in Parents(c) : g[p] \in {"Executed", "Executing"}

AllExecuted(g, c) == \A p \in Parents(c) : g[p] = "Executed"

(***************************************************************************)
(* shm_compare_node_execution_status_and_update: the status the node must  *)
(* have for the update to new_execution_status to be written.              *)
(***************************************************************************)
OldExecutionStatus(new) ==
    CASE new = "Executable" -> "NonExecutable"
      [] new = "Executing" -> "Executable"
      [] new = "Executed" -> "Executing"

\* The status a compare-and-update called from call site a asks for.
NewStatusAt(a) ==
    CASE a = "claim" -> "Executing"
      [] a = "commit" -> "Executed"
      [] a = "promote" -> "Executable"

\* Variant: the update is written whatever the stored status.
StatusMatchesAlways(g, n, new) == TRUE

StatusMatches(g, n, new) == g[n] = OldExecutionStatus(new)

(***************************************************************************)
(* Spec: the scheduler loop of DirectedAcyclicGraph::execute.              *)
(*                                                                         *)
(* A worker attaches to the mapping of the prefix in one step: it creates  *)
(* the two semaphores and writes its graph, or, when the write_lock name   *)
(* exists, opens them.  The creator unlinks the names when execute()       *)
(* returns; workers that opened the mapping keep their handles, and a      *)
(* worker started afterwards creates a new mapping under the same prefix.  *)
(* A mapping is named after the worker that created it.                    *)
(***************************************************************************)
Init ==
    /\ edges \in EdgeLists
    /\ GraphIdle
    /\ pc = [w \in Workers |-> "init"]
    /\ at = [w \in Workers |-> "none"]
    /\ att = [w \in Workers |-> 0]
    /\ attRc = [w \in Workers |-> 0]
    /\ wl = [m \in Workers |-> 0]
    /\ rc = [m \in Workers |-> 0]
    /\ shm = [m \in Workers |-> NoGraph]
    /\ linked = 0
    /\ linkedRc = 0
    /\ self = [w \in Workers |-> NewStatuses(edges)]
    /\ node = [w \in Workers |-> NoNode]
    /\ queue = [w \in Workers |-> <<>>]
    /\ got = [w \in Workers |-> NoGraph]
    /\ execCount = [m \in Workers |-> [n \in Nodes |-> 0]]
    /\ claimedBy = [m \in Workers |-> [n \in Nodes |-> {}]]
    /\ objs = <<>>
    /\ named = <<>>
    /\ hnd = <<>>
    /\ bytes = <<>>
    /\ off = <<>>
    /\ arg = <<>>
    /\ stored = <<>>
    /\ hist = <<>>
    /\ ops = 0

\* PosixSharedMemory::new, or ::open when the write_lock semaphore exists
\* (execute_graph.rs, lines 11-18); open reads the mapping under the read lock.
Start(w) ==
    /\ pc[w] = "init"
    /\ IF linked = 0
       THEN /\ linked' = w
            /\ linkedRc' = linked'
            /\ att' = [att EXCEPT ![w] = w]
            /\ attRc' = att'
            /\ wl' = [wl EXCEPT ![w] = WriteLockInitial]
            /\ rc' = [rc EXCEPT ![w] = ReadCountInitial]
            /\ shm' = [shm EXCEPT ![w] = self[w]]
            /\ at' = [at EXCEPT ![w] = "top"]
       ELSE /\ att' = [att EXCEPT ![w] = linked]
            /\ attRc' = att'
            /\ at' = [at EXCEPT ![w] = "open"]
            /\ UNCHANGED <<linked, linkedRc, wl, rc, shm>>
    /\ pc' = [pc EXCEPT ![w] = "rl_wait"]
    /\ UNCHANGED <<self, node, queue, got, execCount, claimedBy, edges, graphVars, cellVars>>

\* Drop of the mapping when execute() returns: the creator's semaphores unlink
\* their names (Drop for Semaphore).
LinkedAfterDrop(w) == IF att[w] = w /\ linked = w THEN 0 ELSE linked

\* read_from_shm under the read lock (PosixSharedMemory::read and ::open).
ReadFromShm(w) ==
    /\ pc[w] = "rd_held"
    /\ got' = [got EXCEPT ![w] = shm[att[w]]]
    /\ pc' = [pc EXCEPT ![w] = "ru_try"]
    /\ UNCHANGED <<at, att, attRc, wl, rc, shm, linked, linkedRc, self, node, queue,
                   execCount, claimedBy, edges, graphVars, cellVars>>

\* read_unlock returned its error: read() and execute() return it (operator ?).
ReadFailed(w) ==
    /\ pc[w] = "ru_err"
    /\ pc' = [pc EXCEPT ![w] = "err"]
    /\ linked' = LinkedAfterDrop(w)
    /\ linkedRc' = linked'
    /\ got' = [got EXCEPT ![w] = NoGraph]
    /\ UNCHANGED <<at, att, attRc, wl, rc, shm, self, node, queue, execCount, claimedBy, edges, graphVars, cellVars>>

\* Variant of the claim loop: the worker goes on with its own graph, not with g.
ClaimLoopKeepOwn(w, g) ==
    /\ UNCHANGED self
    /\ got' = [got EXCEPT ![w] = NoGraph]
    /\ IF GetExecutableNodeIndex(self[w]) # NoNode
       THEN /\ node' = [node EXCEPT ![w] = GetExecutableNodeIndex(self[w])]
            /\ at' = [at EXCEPT ![w] = "claim"]
            /\ pc' = [pc EXCEPT ![w] = "wl_wait"]
            /\ UNCHANGED <<linked, linkedRc>>
       ELSE /\ at' = [at EXCEPT ![w] = "sleep"]
            /\ pc' = [pc EXCEPT ![w] = "rl_wait"]
            /\ UNCHANGED <<node, linked, linkedRc>>

\* The claim loop (lines 24-44) on the worker's graph g: call the compare-and-update
\* on the first executable node, or return Ok, or sleep and read again.
ClaimLoop(w, g) ==
    /\ self' = [self EXCEPT ![w] = g]
    /\ got' = [got EXCEPT ![w] = NoGraph]
    /\ IF GetExecutableNodeIndex(g) # NoNode
       THEN /\ node' = [node EXCEPT ![w] = GetExecutableNodeIndex(g)]
            /\ at' = [at EXCEPT ![w] = "claim"]
            /\ pc' = [pc EXCEPT ![w] = "wl_wait"]
            /\ UNCHANGED <<linked, linkedRc>>
       ELSE IF IsGraphExecuted(g)
       THEN /\ pc' = [pc EXCEPT ![w] = "ok"]
            /\ linked' = LinkedAfterDrop(w)
            /\ linkedRc' = linked'
            /\ UNCHANGED <<node, at>>
       ELSE /\ at' = [at EXCEPT ![w] = "sleep"]
            /\ pc' = [pc EXCEPT ![w] = "rl_wait"]
            /\ UNCHANGED <<node, linked, linkedRc>>

\* The head of the sweep's while loop (line 68) with queue q: pop the next child and
\* read the graph, or leave the sweep and read the graph at the top of the outer loop.
SweepLoop(w, q) ==
    /\ IF q = <<>>
       THEN /\ node' = [node EXCEPT ![w] = NoNode]
            /\ queue' = [queue EXCEPT ![w] = <<>>]
            /\ at' = [at EXCEPT ![w] = "top"]
       ELSE /\ node' = [node EXCEPT ![w] = Head(q)]
            /\ queue' = [queue EXCEPT ![w] = Tail(q)]
            /\ at' = [at EXCEPT ![w] = "sweep"]
    /\ pc' = [pc EXCEPT ![w] = "rl_wait"]

\* read() returned the stored graph to its call site in execute() (or in open()).
ReadReturned(w) ==
    /\ pc[w] = "ru_ret"
    /\ CASE at[w] = "open" ->
              /\ at' = [at EXCEPT ![w] = "top"]
              /\ pc' = [pc EXCEPT ![w] = "rl_wait"]
              /\ got' = [got EXCEPT ![w] = NoGraph]
              /\ UNCHANGED <<self, node, queue, linked, linkedRc>>
         [] at[w] \in {"top", "sleep"} ->
              /\ ClaimLoop(w, got[w])
              /\ UNCHANGED queue
         [] at[w] = "sweep" ->
              /\ self' = [self EXCEPT ![w] = got[w]]
              /\ got' = [got EXCEPT ![w] = NoGraph]
              /\ UNCHANGED <<linked, linkedRc>>
              /\ IF AllExecuted(got[w], node[w])
                 THEN /\ at' = [at EXCEPT ![w] = "promote"]
                      /\ pc' = [pc EXCEPT ![w] = "wl_wait"]
                      /\ UNCHANGED <<node, queue>>
                 ELSE IF AllExecutedOrExecuting(got[w], node[w])
                 THEN SweepLoop(w, Append(queue[w], node[w]))
                 ELSE SweepLoop(w, queue[w])
    /\ UNCHANGED <<att, attRc, wl, rc, shm, execCount, claimedBy, edges, graphVars, cellVars>>

\* shm_compare_node_execution_status_and_update, under the write lock: read_from_shm
\* and the comparison of the node's status (lines 29-31).
CasRead(w) ==
    /\ pc[w] = "wr_held"
    /\ got' = [got EXCEPT ![w] = shm[att[w]]]
    /\ pc' = [pc EXCEPT ![w] =
                IF StatusMatches(shm[att[w]], node[w], NewStatusAt(at[w]))
                THEN "cas_write" ELSE "wu_post"]
    /\ UNCHANGED <<at, att, attRc, wl, rc, shm, linked, linkedRc, self, node, queue,
                   execCount, claimedBy, edges, graphVars, cellVars>>

\* The worker writes its own, possibly outdated graph instead of the graph it read
\* under the write lock (variant of the write step).
CasWriteOwnGraph(w) ==
    /\ pc[w] = "cas_write"
    /\ shm' = [shm EXCEPT ![att[w]] = [self[w] EXCEPT ![node[w]] = NewStatusAt(at[w])]]
    /\ got' = [got EXCEPT ![w] = NoGraph]
    /\ pc' = [pc EXCEPT ![w] = "wu_post"]
    /\ claimedBy' = IF at[w] = "claim"
                    THEN [claimedBy EXCEPT ![att[w]][node[w]] = @ \cup {w}]
                    ELSE claimedBy
    /\ UNCHANGED <<at, att, attRc, wl, rc, linked, linkedRc, self, node, queue, execCount, edges, graphVars, cellVars>>

\* ... the update of the status in the graph just read and write_to_shm (lines 34-35).
CasWrite(w) ==
    /\ pc[w] = "cas_write"
    /\ shm' = [shm EXCEPT ![att[w]] = [got[w] EXCEPT ![node[w]] = NewStatusAt(at[w])]]
    /\ got' = [got EXCEPT ![w] = NoGraph]
    /\ pc' = [pc EXCEPT ![w] = "wu_post"]
    /\ claimedBy' = IF at[w] = "claim"
                    THEN [claimedBy EXCEPT ![att[w]][node[w]] = @ \cup {w}]
                    ELSE claimedBy
    /\ UNCHANGED <<at, att, attRc, wl, rc, linked, linkedRc, self, node, queue, execCount, edges, graphVars, cellVars>>

\* The compare-and-update returned None (got is NoGraph) or Some(graph) to its call
\* site in execute().
CasReturned(w) ==
    /\ pc[w] = "wu_ret"
    /\ CASE at[w] = "claim" /\ got[w] = NoGraph ->
              /\ self' = [self EXCEPT ![w][node[w]] = "Executing"]
              /\ pc' = [pc EXCEPT ![w] = "exec"]
              /\ UNCHANGED <<at, node, queue, got, linked, linkedRc>>
         [] at[w] = "claim" /\ got[w] # NoGraph ->
              /\ ClaimLoop(w, got[w])
              /\ UNCHANGED queue
         [] at[w] = "commit" /\ got[w] = NoGraph ->
              /\ SweepLoop(w, ChildrenOf(edges, node[w]))
              /\ UNCHANGED <<self, got, linked, linkedRc>>
         [] at[w] = "commit" /\ got[w] # NoGraph ->
              /\ pc' = [pc EXCEPT ![w] = "err"]
              /\ linked' = LinkedAfterDrop(w)
              /\ linkedRc' = linked'
              /\ got' = [got EXCEPT ![w] = NoGraph]
              /\ UNCHANGED <<at, self, node, queue>>
         [] at[w] = "promote" ->
              /\ self' = [self EXCEPT ![w][node[w]] =
                            IF got[w] = NoGraph THEN "Executable" ELSE got[w][node[w]]]
              /\ got' = [got EXCEPT ![w] = NoGraph]
              /\ SweepLoop(w, queue[w])
              /\ UNCHANGED <<linked, linkedRc>>
    /\ UNCHANGED <<att, attRc, wl, rc, shm, execCount, claimedBy, edges, graphVars, cellVars>>

\* Node::execute on the claimed node and the status assignment of line 49, then the
\* call of the compare-and-update that commits Executed.
Execute(w) ==
    /\ pc[w] = "exec"
    /\ IF self[w][node[w]] = "Executing"
       THEN /\ execCount' = [execCount EXCEPT ![att[w]][node[w]] = @ + 1]
            /\ self' = [self EXCEPT ![w][node[w]] = "Executed"]
            /\ at' = [at EXCEPT ![w] = "commit"]
            /\ pc' = [pc EXCEPT ![w] = "wl_wait"]
            /\ UNCHANGED <<linked, linkedRc>>
       ELSE /\ pc' = [pc EXCEPT ![w] = "err"]
            /\ linked' = LinkedAfterDrop(w)
            /\ linkedRc' = linked'
            /\ UNCHANGED <<execCount, self, at>>
    /\ UNCHANGED <<att, attRc, wl, rc, shm, node, queue, got, claimedBy, edges, graphVars, cellVars>>

WorkerLock(w) == LockStep(w) /\ UNCHANGED schedVars

Next ==
    \E w \in Workers :
        \/ Start(w)
        \/ WorkerLock(w)
        \/ ReadFromShm(w)
        \/ ReadFailed(w)
        \/ ReadReturned(w)
        \/ CasRead(w)
        \/ CasWrite(w)
        \/ CasReturned(w)
        \/ Execute(w)

Spec == Init /\ [][Next]_vars

\* Every step of worker w.
WorkerStep(w) ==
    \/ Start(w)
    \/ WorkerLock(w)
    \/ ReadFromShm(w)
    \/ ReadFailed(w)
    \/ ReadReturned(w)
    \/ CasRead(w)
    \/ CasWrite(w)
    \/ CasReturned(w)
    \/ Execute(w)

\* The graph of the fair runs: two parents (0 and 1) of one child (2).
FairInit == Init /\ edges = <<<<0, 2>>, <<1, 2>>>>

\* FairSpec: the scheduler loop with workers that keep running.  A worker that can
\* take a step again and again eventually takes it: the loops of execute() sleep
\* between two reads (10 ms) and write_lock() between two probes (30 ms), so a
\* worker blocked in a wait on write_lock gets the semaphore.
FairSpec == FairInit /\ [][Next]_vars /\ \A w \in Workers : SF_vars(WorkerStep(w))

(***************************************************************************)
(* ForeignSpec: the workers of Spec and a process that is no worker and    *)
(* stores a graph in the mapping with PosixSharedMemory::write, here the   *)
(* input graph with its initial statuses.  Its write takes the write lock  *)
(* as every write does; it is one step, taken when no process is inside    *)
(* the lock.  Only such a write makes a worker's commit find its node in   *)
(* another status than Executing.                                          *)
(***************************************************************************)
MaxForeignWrites == 1   \* writes of the process that is no worker

ForeignWrite(m) ==
    /\ ops < MaxForeignWrites
    /\ linked = m
    /\ wl[m] = WriteLockInitial
    /\ rc[m] = ReadCountInitial
    /\ shm' = [shm EXCEPT ![m] = NewStatuses(edges)]
    /\ ops' = ops + 1
    /\ UNCHANGED <<pc, at, att, attRc, wl, rc, linked, linkedRc, self, node, queue, got,
                   execCount, claimedBy, edges, graphVars, objs, named, hnd, bytes, off, arg, stored,
                   hist>>

ForeignNext ==
    \/ Next
    \/ \E m \in Workers : ForeignWrite(m)

\* The input graph of ForeignSpec: node 0 is the parent of node 1, node 2 has no edge.
ForeignInit == Init /\ edges = <<<<0, 1>>>>

ForeignSpec == ForeignInit /\ [][ForeignNext]_vars

(***************************************************************************)
(* AbortSpec: Spec with workers that return an error between the claim of  *)
(* a node and its commit.  execute() returns the error of Node::execute    *)
(* (execute_graph.rs, line 46) or the error of the wait on write_lock with *)
(* which the committing compare-and-update begins (rwlock.rs, lines        *)
(* 88-90), both through the operator ?; the mapping of the worker is       *)
(* dropped.  The aborted worker stays at "abort", with the node it claimed *)
(* in node and the call site it had reached in at.                         *)
(***************************************************************************)
Abort(w) ==
    /\ \/ pc[w] = "exec"
       \/ pc[w] = "wl_wait" /\ at[w] = "commit"
    /\ pc' = [pc EXCEPT ![w] = "abort"]
    /\ linked' = LinkedAfterDrop(w)
    /\ linkedRc' = linked'
    /\ UNCHANGED <<at, att, attRc, wl, rc, shm, self, node, queue, got, execCount,
                   claimedBy, edges, graphVars, cellVars>>

AbortNext ==
    \/ Next
    \/ \E w \in Workers : Abort(w)

AbortSpec == Init /\ [][AbortNext]_vars

(***************************************************************************)
(* UpdateSpec: processes attached to one mapping call                      *)
(* shm_compare_node_execution_status_and_update directly, on any node and  *)
(* with any of the four statuses as new_execution_status.  The call sites  *)
(* "promote", "claim" and "commit" stand for the new statuses Executable,  *)
(* Executing and Executed, "reset" for NonExecutable.  "cas_err" is the    *)
(* return of the error "New execution status cannot be                     *)
(* ExecutionStatus::NonExecutable." (shm_graph.rs, line 19).               *)
(***************************************************************************)
MaxCalls == 3       \* calls of the compare-and-update in a run of UpdateSpec

\* The new_execution_status of a call made at call site a.
RequestedStatus(a) == IF a = "reset" THEN "NonExecutable" ELSE NewStatusAt(a)

\* Variant: no new status is refused.
RejectsNewStatusNever(new) == FALSE

\* The arm of the match on new_execution_status that returns the error (line 19).
RejectsNewStatus(new) == new = "NonExecutable"

\* The mapping was created by process 1 with the graph of one edge, node 0 the
\* parent of node 1, and opened by the other processes.
UpdateInit ==
    /\ edges = <<<<0, 1>>>>
    /\ GraphIdle
    /\ pc = [w \in Workers |-> "idle"]
    /\ at = [w \in Workers |-> "none"]
    /\ att = [w \in Workers |-> 1]
    /\ attRc = [w \in Workers |-> 1]
    /\ wl = [m \in Workers |-> IF m = 1 THEN WriteLockInitial ELSE 0]
    /\ rc = [m \in Workers |-> ReadCountInitial]
    /\ shm = [m \in Workers |-> IF m = 1 THEN NewStatuses(edges) ELSE NoGraph]
    /\ linked = 1
    /\ linkedRc = 1
    /\ self = [w \in Workers |-> NewStatuses(edges)]
    /\ node = [w \in Workers |-> NoNode]
    /\ queue = [w \in Workers |-> <<>>]
    /\ got = [w \in Workers |-> NoGraph]
    /\ execCount = [m \in Workers |-> [n \in Nodes |-> 0]]
    /\ claimedBy = [m \in Workers |-> [n \in Nodes |-> {}]]
    /\ objs = <<>>
    /\ named = <<>>
    /\ hnd = <<>>
    /\ bytes = <<>>
    /\ off = <<>>
    /\ arg = <<>>
    /\ stored = <<>>
    /\ hist = <<>>
    /\ ops = 0

\* The call with node n from call site a: the match on new_execution_status
\* (lines 18-23) returns the error or the function goes on to write_lock().
CasCall(w, n, a) ==
    /\ pc[w] = "idle"
    /\ ops < MaxCalls
    /\ ops' = ops + 1
    /\ at' = [at EXCEPT ![w] = a]
    /\ node' = [node EXCEPT ![w] = n]
    /\ pc' = [pc EXCEPT ![w] =
                IF RejectsNewStatus(RequestedStatus(a)) THEN "cas_err" ELSE "wl_wait"]
    /\ UNCHANGED <<att, attRc, wl, rc, shm, linked, linkedRc, self, queue, got, execCount,
                   claimedBy, edges, graphVars, objs, named, hnd, bytes, off, arg, stored,
                   hist>>

\* The call returned None, Some(graph) or the error to its caller.
CasCallReturned(w) ==
    /\ pc[w] \in {"wu_ret", "cas_err"}
    /\ pc' = [pc EXCEPT ![w] = "idle"]
    /\ at' = [at EXCEPT ![w] = "none"]
    /\ node' = [node EXCEPT ![w] = NoNode]
    /\ got' = [got EXCEPT ![w] = NoGraph]
    /\ UNCHANGED <<att, attRc, wl, rc, shm, linked, linkedRc, self, queue, execCount,
                   claimedBy, edges, graphVars, cellVars>>

UpdateNext ==
    \E w \in Workers :
        \/ \E n \in Nodes, a \in {"promote", "claim", "commit", "reset"} : CasCall(w, n, a)
        \/ WorkerLock(w)
        \/ CasRead(w)
        \/ CasWrite(w)
        \/ CasCallReturned(w)

UpdateSpec == UpdateInit /\ [][UpdateNext]_vars

(***************************************************************************)
(* The byte cells of a mapping (PosixSharedMemory::read_from_shm and       *)
(* ::write_to_shm).  A cell is a named shared-memory object holding one    *)
(* byte.  A process reaches a cell through a handle it keeps in            *)
(* data_storages or by opening the name {prefix}_{offset}; removing a name *)
(* leaves the object alive for the processes that hold a handle of it, and *)
(* a later create under the same name makes a new object.  Every load,     *)
(* store, create and removal is one step.                                  *)
(***************************************************************************)
UsizeBufLen == 8    \* usize::MAX.to_be_bytes().len()
MaxOps == 3         \* mapping operations called in a run of CellSpec

\* The data the mapping is created with and the data written to it later, as their
\* serialized bytes.
InitialData == <<2, 3>>
DataSet == {<<1>>, <<4, 5>>}

MaxCells == UsizeBufLen + 2
CellIdx == 0..(MaxCells - 1)

\* usize::to_be_bytes on k bytes, and usize::from_be_bytes.
RECURSIVE ToBeBytes(_, _)
ToBeBytes(n, k) ==
    IF k = 0 THEN <<>> ELSE Append(ToBeBytes(n \div 256, k - 1), n % 256)

RECURSIVE FromBeBytes(_)
FromBeBytes(b) ==
    IF b = <<>> THEN 0
    ELSE FromBeBytes(SubSeq(b, 1, Len(b) - 1)) * 256 + b[Len(b)]

\* The byte vector write_to_shm stores for data d: total length, then the data.
ShmBytes(d) == ToBeBytes(UsizeBufLen + Len(d), UsizeBufLen) \o d

\* total_buf_len as read_from_shm computes it from the first bytes it loaded.
TotalBufLen(b) == FromBeBytes(SubSeq(b, 1, UsizeBufLen))

\* The steps of read_from_shm and write_to_shm.
CellSteps == {"rfs_len", "rfs_data", "rfs_pop", "wts", "wts_pop"}

\* One iteration of a read loop at offset Len(bytes[p]): load through the handle in
\* data_storages, or open the cell by name (a missing name is the panic of line 185
\* or 206), load and keep the handle.
LoadCell(p, next) ==
    LET i == Len(bytes[p]) IN
    IF i < Len(hnd[p])
    THEN /\ bytes' = [bytes EXCEPT ![p] = Append(@, objs[hnd[p][i + 1]].v)]
         /\ pc' = [pc EXCEPT ![p] = next]
         /\ UNCHANGED hnd
    ELSE IF named[i] = 0
    THEN /\ pc' = [pc EXCEPT ![p] = "panic"]
         /\ UNCHANGED <<bytes, hnd>>
    ELSE /\ bytes' = [bytes EXCEPT ![p] = Append(@, objs[named[i]].v)]
         /\ hnd' = [hnd EXCEPT ![p] = Append(@, named[i])]
         /\ pc' = [pc EXCEPT ![p] = next]

\* Variant: the popped handle is dropped without ownership, its name stays.
PopCellKeepName(p) ==
    /\ hnd' = [hnd EXCEPT ![p] = SubSeq(@, 1, Len(@) - 1)]
    /\ UNCHANGED named

\* data_storages.pop().acquire_ownership() and the drop of the handle: the last
\* handle goes and the name of its offset is removed.
PopCell(p) ==
    /\ hnd' = [hnd EXCEPT ![p] = SubSeq(@, 1, Len(@) - 1)]
    /\ named' = [named EXCEPT ![Len(hnd[p]) - 1] = 0]

\* read_from_shm is entered with the lock of its caller held.
ReadFromShmBegin(p) ==
    /\ \/ pc[p] = "rd_held" /\ at[p] \in {"read", "open"}
       \/ pc[p] = "wr_held" /\ at[p] = "cas"
    /\ bytes' = [bytes EXCEPT ![p] = <<>>]
    /\ pc' = [pc EXCEPT ![p] = "rfs_len"]
    /\ UNCHANGED <<at, att, attRc, wl, rc, objs, named, hnd, off, arg, stored, hist, ops, got>>

\* The loop over the cells of the total length (lines 177-193).
ReadFromShmLen(p) ==
    /\ pc[p] = "rfs_len"
    /\ LoadCell(p, IF Len(bytes[p]) + 1 = UsizeBufLen THEN "rfs_data" ELSE "rfs_len")
    /\ UNCHANGED <<at, att, attRc, wl, rc, objs, named, off, arg, stored, hist, ops, got>>

\* The loop over the cells of the data (lines 196-217).
ReadFromShmData(p) ==
    /\ pc[p] = "rfs_data"
    /\ IF Len(bytes[p]) < TotalBufLen(bytes[p])
       THEN LoadCell(p, "rfs_data")
       ELSE /\ pc' = [pc EXCEPT ![p] = "rfs_pop"]
            /\ UNCHANGED <<bytes, hnd>>
    /\ UNCHANGED <<at, att, attRc, wl, rc, objs, named, off, arg, stored, hist, ops, got>>

\* The removal of surplus handles (lines 220-225) and the return of the data bytes
\* (line 228; the slice panics when the total length is below the prefix length).
\* read() and open() go on to read_unlock; the compare-and-swap compares the data
\* with its first argument (line 136) and writes the second or goes on to
\* write_unlock with the data it read.
ReadFromShmPop(p) ==
    /\ pc[p] = "rfs_pop"
    /\ LET total == TotalBufLen(bytes[p])
           data == SubSeq(bytes[p], UsizeBufLen + 1, total)
       IN  IF total < Len(hnd[p])
           THEN /\ PopCell(p)
                /\ UNCHANGED <<pc, bytes, off, got, arg>>
           ELSE IF total < UsizeBufLen
           THEN /\ pc' = [pc EXCEPT ![p] = "panic"]
                /\ UNCHANGED <<hnd, named, bytes, off, got, arg>>
           ELSE IF at[p] = "cas" /\ data = arg[p].exp
           THEN /\ bytes' = [bytes EXCEPT ![p] = ShmBytes(arg[p].new)]
                /\ off' = [off EXCEPT ![p] = 0]
                /\ arg' = [arg EXCEPT ![p].held = Len(hnd[p])]
                /\ pc' = [pc EXCEPT ![p] = "wts"]
                /\ UNCHANGED <<hnd, named, got>>
           ELSE /\ got' = [got EXCEPT ![p] = data]
                /\ bytes' = [bytes EXCEPT ![p] = <<>>]
                /\ pc' = [pc EXCEPT ![p] = IF at[p] = "cas" THEN "wu_post" ELSE "ru_try"]
                /\ UNCHANGED <<hnd, named, off, arg>>
    /\ UNCHANGED <<at, att, attRc, wl, rc, objs, stored, hist, ops>>

\* write_to_shm is entered by write() with the write lock held.
WriteToShmBegin(p) ==
    /\ pc[p] = "wr_held"
    /\ at[p] = "write"
    /\ bytes' = [bytes EXCEPT ![p] = ShmBytes(arg[p].new)]
    /\ off' = [off EXCEPT ![p] = 0]
    /\ arg' = [arg EXCEPT ![p].held = Len(hnd[p])]
    /\ pc' = [pc EXCEPT ![p] = "wts"]
    /\ UNCHANGED <<at, att, attRc, wl, rc, objs, named, hnd, stored, hist, ops, got>>

\* One step of the write loop (lines 247-263): the store through the handle at the
\* offset, or, with no handle at the offset, the creation of the cell with byte 0,
\* whose handle is then stored through.  A create under a name that exists is the
\* error of line 257, returned through write() without write_unlock.
WriteToShmStore(p) ==
    /\ pc[p] = "wts"
    /\ IF off[p] = Len(bytes[p])
       THEN /\ pc' = [pc EXCEPT ![p] = "wts_pop"]
            /\ UNCHANGED <<objs, named, hnd, off>>
       ELSE IF off[p] < Len(hnd[p])
       THEN /\ objs' = [objs EXCEPT ![hnd[p][off[p] + 1]].v = bytes[p][off[p] + 1]]
            /\ off' = [off EXCEPT ![p] = @ + 1]
            /\ UNCHANGED <<pc, named, hnd>>
       ELSE IF named[off[p]] # 0
       THEN /\ pc' = [pc EXCEPT ![p] = "wts_err"]
            /\ UNCHANGED <<objs, named, hnd, off>>
       ELSE /\ objs' = Append(objs, [v |-> 0, by |-> p])
            /\ named' = [named EXCEPT ![off[p]] = Len(objs) + 1]
            /\ hnd' = [hnd EXCEPT ![p] = Append(@, Len(objs) + 1)]
            /\ UNCHANGED <<pc, off>>
    /\ UNCHANGED <<at, att, attRc, wl, rc, bytes, arg, stored, hist, ops, got>>

\* The removal of surplus handles (lines 266-271) and the return of write_to_shm to
\* write() or to the compare-and-swap, which go on to write_unlock.
WriteToShmPop(p) ==
    /\ pc[p] = "wts_pop"
    /\ at[p] \in {"write", "cas"}
    /\ IF Len(hnd[p]) > off[p]
       THEN /\ PopCell(p)
            /\ UNCHANGED <<pc, bytes, off, stored, hist, got>>
       ELSE /\ stored' = arg[p].new
            /\ hist' = Append(hist, arg[p].new)
            /\ bytes' = [bytes EXCEPT ![p] = <<>>]
            /\ off' = [off EXCEPT ![p] = 0]
            /\ got' = [got EXCEPT ![p] = <<>>]
            /\ pc' = [pc EXCEPT ![p] = "wu_post"]
            /\ UNCHANGED <<hnd, named>>
    /\ UNCHANGED <<at, att, attRc, wl, rc, objs, arg, ops>>

\* One step of read_from_shm or write_to_shm by process p.
CellStep(p) ==
    \/ ReadFromShmBegin(p)
    \/ ReadFromShmLen(p)
    \/ ReadFromShmData(p)
    \/ ReadFromShmPop(p)
    \/ WriteToShmBegin(p)
    \/ WriteToShmStore(p)
    \/ WriteToShmPop(p)

(***************************************************************************)
(* CellSpec: processes attached to one mapping call read, write and        *)
(* shm_compare_data_and_swap in any order.  The mapping was created by     *)
(* process 1 with some data and opened by the other processes, so every    *)
(* process holds handles of the cells of the initial data.                 *)
(***************************************************************************)
NoData == <<0>>     \* no data: DataSet holds no data starting with byte 0
NoArg == [exp |-> NoData, new |-> NoData, seen |-> 0, held |-> 0]

InitialObjs(d) == [o \in 1..Len(ShmBytes(d)) |-> [v |-> ShmBytes(d)[o], by |-> 1]]

CellInit ==
    LET d == InitialData IN
        /\ pc = [p \in Procs |-> "idle"]
        /\ at = [p \in Procs |-> "none"]
        /\ att = [p \in Procs |-> 1]
        /\ attRc = [p \in Procs |-> 1]
        /\ wl = [m \in {1} |-> WriteLockInitial]
        /\ rc = [m \in {1} |-> ReadCountInitial]
        /\ objs = InitialObjs(d)
        /\ named = [i \in CellIdx |-> IF i < Len(ShmBytes(d)) THEN i + 1 ELSE 0]
        /\ hnd = [p \in Procs |-> [i \in 1..Len(ShmBytes(d)) |-> i]]
        /\ bytes = [p \in Procs |-> <<>>]
        /\ off = [p \in Procs |-> 0]
        /\ arg = [p \in Procs |-> NoArg]
        /\ got = [p \in Procs |-> <<>>]
        /\ stored = d
        /\ hist = <<d>>
        /\ ops = 0
        /\ shm = <<>>
        /\ linked = 1
        /\ linkedRc = 1
        /\ self = <<>>
        /\ node = <<>>
        /\ queue = <<>>
        /\ execCount = <<>>
        /\ claimedBy = <<>>
        /\ edges = <<>>
        /\ GraphIdle

cellIdle == <<shm, linked, linkedRc, self, node, queue, execCount, claimedBy, edges, graphVars,
             att, attRc>>

\* PosixSharedMemory::read is called ...
CellReadCall(p) ==
    /\ pc[p] = "idle"
    /\ ops < MaxOps
    /\ ops' = ops + 1
    /\ at' = [at EXCEPT ![p] = "read"]
    /\ arg' = [arg EXCEPT ![p] = [NoArg EXCEPT !.seen = Len(hist)]]
    /\ pc' = [pc EXCEPT ![p] = "rl_wait"]
    /\ UNCHANGED <<wl, rc, objs, named, hnd, bytes, off, stored, hist, got>>

\* ... and returns the data it read (got).
CellReadReturn(p) ==
    /\ pc[p] = "ru_ret"
    /\ got' = [got EXCEPT ![p] = <<>>]
    /\ at' = [at EXCEPT ![p] = "none"]
    /\ arg' = [arg EXCEPT ![p] = NoArg]
    /\ pc' = [pc EXCEPT ![p] = "idle"]
    /\ UNCHANGED <<wl, rc, objs, named, hnd, bytes, off, stored, hist, ops>>

\* PosixSharedMemory::write(d) or ::shm_compare_data_and_swap(e, d) is called ...
CellWriteCall(p, kind, e, d) ==
    /\ pc[p] = "idle"
    /\ ops < MaxOps
    /\ ops' = ops + 1
    /\ at' = [at EXCEPT ![p] = kind]
    /\ arg' = [arg EXCEPT ![p] = [exp |-> e, new |-> d, seen |-> Len(hist), held |-> 0]]
    /\ pc' = [pc EXCEPT ![p] = "wl_wait"]
    /\ UNCHANGED <<wl, rc, objs, named, hnd, bytes, off, stored, hist, got>>

\* ... and returns: the compare-and-swap None (got is empty) or Some(got).
CellWriteReturn(p) ==
    /\ pc[p] = "wu_ret"
    /\ got' = [got EXCEPT ![p] = <<>>]
    /\ at' = [at EXCEPT ![p] = "none"]
    /\ arg' = [arg EXCEPT ![p] = NoArg]
    /\ pc' = [pc EXCEPT ![p] = "idle"]
    /\ UNCHANGED <<wl, rc, objs, named, hnd, bytes, off, stored, hist, ops>>

CellLock(p) ==
    /\ LockStep(p)
    /\ UNCHANGED <<at, got, objs, named, hnd, bytes, off, arg, stored, hist, ops>>

CellNext ==
    \E p \in Procs :
        /\ UNCHANGED cellIdle
        /\ \/ CellLock(p)
           \/ CellStep(p)
           \/ CellReadCall(p)
           \/ CellReadReturn(p)
           \/ \E d \in DataSet : CellWriteCall(p, "write", NoData, d)
           \/ \E e \in DataSet \cup {InitialData}, d \in DataSet :
                 CellWriteCall(p, "cas", e, d)
           \/ CellWriteReturn(p)

CellSpec == CellInit /\ [][CellNext]_vars

(***************************************************************************)
(* StartSpec: the start and the end of a mapping, step by step.  Every     *)
(* process runs the first statement of DirectedAcyclicGraph::execute once  *)
(* (PosixSharedMemory::new, and ::open when the write_lock semaphore       *)
(* exists) and then drops the mapping it obtained, as execute() does when  *)
(* it returns.  All processes use the same prefix and the same input       *)
(* graph, whose serialization is InitialData.  A semaphore is named after  *)
(* the process that created it; it outlives its name for the processes     *)
(* that hold a handle of it.                                               *)
(***************************************************************************)
NumStarters == 2    \* processes of StartSpec
Starters == 1..NumStarters

\* A worker that is not one of Starters: in some runs it created the mapping before
\* they start, and it is in its scheduler loop while they run.
Elder == NumStarters + 1
ElderObjs == [o \in DOMAIN InitialObjs(InitialData) |->
                [InitialObjs(InitialData)[o] EXCEPT !.by = Elder]]

\* Variant: every handle of a semaphore unlinks the name when it is dropped.
SemCreatorAlways(p, m) == TRUE

\* The field creator of the handle of semaphore m held by p: set by
\* Semaphore::create, not by Semaphore::open.
SemCreator(p, m) == m = p

\* rmp_serde::from_slice on the bytes read (line 86): bytes that are the
\* serialization of no graph are an error.
Deserializes(b) == b \in DataSet \cup {InitialData}

StartInit ==
    /\ linked \in {0, Elder}
    /\ linkedRc = linked
    /\ pc = [p \in Starters |-> "init"]
    /\ at = [p \in Starters |-> "none"]
    /\ att = [p \in Starters |-> 0]
    /\ attRc = [p \in Starters |-> 0]
    /\ wl = [m \in Starters \cup {Elder} |-> IF m = linked THEN WriteLockInitial ELSE 0]
    /\ rc = [m \in Starters \cup {Elder} |-> IF m = linked THEN ReadCountInitial ELSE 0]
    /\ objs = IF linked = Elder THEN ElderObjs ELSE <<>>
    /\ named = [i \in CellIdx |-> IF linked = Elder /\ i < Len(ElderObjs) THEN i + 1 ELSE 0]
    /\ hnd = [p \in Starters |-> <<>>]
    /\ bytes = [p \in Starters |-> <<>>]
    /\ off = [p \in Starters |-> 0]
    /\ arg = [p \in Starters |-> NoArg]
    /\ got = [p \in Starters |-> <<>>]
    /\ stored = IF linked = Elder THEN InitialData ELSE NoData
    /\ hist = IF linked = Elder THEN <<InitialData>> ELSE <<>>
    /\ ops = 0
    /\ shm = <<>>
    /\ self = <<>>
    /\ node = <<>>
    /\ queue = <<>>
    /\ execCount = <<>>
    /\ claimedBy = <<>>
    /\ edges = <<>>
    /\ GraphIdle

startIdle == <<shm, self, node, queue, execCount, claimedBy, edges, graphVars, ops>>

\* new: Semaphore::create of write_lock (lines 41-42).  When the name exists,
\* execute() falls back to open (execute_graph.rs, lines 13-16).
NewWriteLock(p) ==
    /\ pc[p] = "init"
    /\ IF linked = 0
       THEN /\ linked' = p
            /\ wl' = [wl EXCEPT ![p] = WriteLockInitial]
            /\ att' = [att EXCEPT ![p] = p]
            /\ at' = [at EXCEPT ![p] = "new"]
            /\ pc' = [pc EXCEPT ![p] = "new_rc"]
       ELSE /\ at' = [at EXCEPT ![p] = "open"]
            /\ pc' = [pc EXCEPT ![p] = "open_wl"]
            /\ UNCHANGED <<linked, wl, att>>
    /\ UNCHANGED <<attRc, rc, linkedRc, objs, named, hnd, bytes, off, arg, got, stored, hist>>

\* new: Semaphore::create of read_count (lines 43-44) and the entry of the initial
\* write_to_shm (line 54), which no lock function precedes.  When the name exists new
\* returns "Failed to create read_count", which execute() returns as its error; the
\* write_lock semaphore just created is dropped.
NewReadCount(p) ==
    /\ pc[p] = "new_rc"
    /\ IF linkedRc = 0
       THEN /\ linkedRc' = p
            /\ rc' = [rc EXCEPT ![p] = ReadCountInitial]
            /\ attRc' = [attRc EXCEPT ![p] = p]
            /\ bytes' = [bytes EXCEPT ![p] = ShmBytes(InitialData)]
            /\ off' = [off EXCEPT ![p] = 0]
            /\ arg' = [arg EXCEPT ![p] = [NoArg EXCEPT !.new = InitialData]]
            /\ pc' = [pc EXCEPT ![p] = "wts"]
            /\ UNCHANGED at
       ELSE /\ at' = [at EXCEPT ![p] = "new_err"]
            /\ pc' = [pc EXCEPT ![p] = "drop_wl"]
            /\ UNCHANGED <<linkedRc, rc, attRc, bytes, off, arg>>
    /\ UNCHANGED <<att, wl, linked, objs, named, hnd, got, stored, hist>>

\* new: the initial write_to_shm returned the error of line 257 (a cell of the name
\* exists); new returns it and the mapping is dropped.
NewWriteFailed(p) ==
    /\ pc[p] = "wts_err"
    /\ at[p] = "new"
    /\ at' = [at EXCEPT ![p] = "new_err"]
    /\ pc' = [pc EXCEPT ![p] = "drop_wl"]
    /\ bytes' = [bytes EXCEPT ![p] = <<>>]
    /\ off' = [off EXCEPT ![p] = 0]
    /\ UNCHANGED <<att, attRc, wl, rc, linked, linkedRc, objs, named, hnd, arg, got, stored, hist>>

\* new: the initial write_to_shm returned Ok (data_storages was empty when it was
\* entered, so its pop loop has nothing to pop), new returns the mapping.
NewReturn(p) ==
    /\ pc[p] = "wts_pop"
    /\ at[p] = "new"
    /\ stored' = arg[p].new
    /\ hist' = Append(hist, arg[p].new)
    /\ bytes' = [bytes EXCEPT ![p] = <<>>]
    /\ off' = [off EXCEPT ![p] = 0]
    /\ pc' = [pc EXCEPT ![p] = "ready"]
    /\ UNCHANGED <<at, att, attRc, wl, rc, linked, linkedRc, objs, named, hnd, arg, got>>

\* open: Semaphore::open of write_lock (lines 64-65).
OpenWriteLock(p) ==
    /\ pc[p] = "open_wl"
    /\ IF linked # 0
       THEN /\ att' = [att EXCEPT ![p] = linked]
            /\ pc' = [pc EXCEPT ![p] = "open_rc"]
            /\ UNCHANGED at
       ELSE /\ at' = [at EXCEPT ![p] = "open_err"]
            /\ pc' = [pc EXCEPT ![p] = "drop_wl"]
            /\ UNCHANGED att
    /\ UNCHANGED <<attRc, wl, rc, linked, linkedRc, objs, named, hnd, bytes, off, arg, got,
                   stored, hist>>

\* open: Semaphore::open of read_count (lines 66-67), then read_lock (line 77).
OpenReadCount(p) ==
    /\ pc[p] = "open_rc"
    /\ IF linkedRc # 0
       THEN /\ attRc' = [attRc EXCEPT ![p] = linkedRc]
            /\ pc' = [pc EXCEPT ![p] = "rl_wait"]
            /\ UNCHANGED at
       ELSE /\ at' = [at EXCEPT ![p] = "open_err"]
            /\ pc' = [pc EXCEPT ![p] = "drop_wl"]
            /\ UNCHANGED attRc
    /\ UNCHANGED <<att, wl, rc, linked, linkedRc, objs, named, hnd, bytes, off, arg, got,
                   stored, hist>>

\* open: read_unlock returned its error, open returns it (line 83).
OpenUnlockFailed(p) ==
    /\ pc[p] = "ru_err"
    /\ at' = [at EXCEPT ![p] = "open_err"]
    /\ pc' = [pc EXCEPT ![p] = "drop_wl"]
    /\ UNCHANGED <<att, attRc, wl, rc, linked, linkedRc, objs, named, hnd, bytes, off, arg,
                   got, stored, hist>>

\* open: the bytes read are deserialized and returned with the mapping (lines 86-87).
OpenReturn(p) ==
    /\ pc[p] = "ru_ret"
    /\ IF Deserializes(got[p])
       THEN /\ pc' = [pc EXCEPT ![p] = "ready"]
            /\ UNCHANGED at
       ELSE /\ at' = [at EXCEPT ![p] = "open_err"]
            /\ pc' = [pc EXCEPT ![p] = "drop_wl"]
    /\ UNCHANGED <<att, attRc, wl, rc, linked, linkedRc, objs, named, hnd, bytes, off, arg,
                   got, stored, hist>>

\* The mapping is dropped, its fields in the order of their declaration: first
\* write_lock (Drop for Semaphore: sem_close, and sem_unlink of the name by the
\* creator's handle) ...
DropWriteLock(p) ==
    /\ pc[p] \in {"ready", "drop_wl"}
    /\ linked' = IF att[p] # 0 /\ SemCreator(p, att[p]) THEN 0 ELSE linked
    /\ att' = [att EXCEPT ![p] = 0]
    /\ pc' = [pc EXCEPT ![p] = "drop_rc"]
    /\ UNCHANGED <<at, attRc, wl, rc, linkedRc, objs, named, hnd, bytes, off, arg, got,
                   stored, hist>>

\* ... then read_count ...
DropReadCount(p) ==
    /\ pc[p] = "drop_rc"
    /\ linkedRc' = IF attRc[p] # 0 /\ SemCreator(p, attRc[p]) THEN 0 ELSE linkedRc
    /\ attRc' = [attRc EXCEPT ![p] = 0]
    /\ off' = [off EXCEPT ![p] = 0]
    /\ pc' = [pc EXCEPT ![p] = "drop_cells"]
    /\ UNCHANGED <<at, att, wl, rc, linked, objs, named, hnd, bytes, arg, got, stored, hist>>

\* ... then data_storages, one handle after the other from offset 0 (off[p] counts
\* the handles dropped): the handle of a cell this process created owns the cell and
\* removes its name, an opened handle does not.
DropCells(p) ==
    /\ pc[p] = "drop_cells"
    /\ IF off[p] < Len(hnd[p])
       THEN /\ named' = IF objs[hnd[p][off[p] + 1]].by = p
                        THEN [named EXCEPT ![off[p]] = 0]
                        ELSE named
            /\ off' = [off EXCEPT ![p] = @ + 1]
            /\ UNCHANGED <<pc, hnd>>
       ELSE /\ hnd' = [hnd EXCEPT ![p] = <<>>]
            /\ off' = [off EXCEPT ![p] = 0]
            /\ pc' = [pc EXCEPT ![p] = "done"]
            /\ UNCHANGED named
    /\ UNCHANGED <<at, att, attRc, wl, rc, linked, linkedRc, objs, bytes, arg, got, stored,
                   hist>>

\* open: one step of read_lock or read_unlock.
StartLock(p) ==
    /\ \/ ReadLockWait(p)
       \/ ReadLockTry(p)
       \/ ReadLockCorrect(p)
       \/ ReadLockRegister(p)
       \/ ReadLockRelease(p)
       \/ ReadUnlockTry(p)
       \/ ReadUnlockProbe(p)
       \/ ReadUnlockCorrect(p)
    /\ UNCHANGED <<at, att, attRc, linked, linkedRc, objs, named, hnd, bytes, off, arg, got,
                   stored, hist>>

\* open: one step of read_from_shm; new: one step of the loop of write_to_shm.
StartCell(p) ==
    /\ \/ ReadFromShmBegin(p)
       \/ ReadFromShmLen(p)
       \/ ReadFromShmData(p)
       \/ ReadFromShmPop(p)
       \/ WriteToShmStore(p)
    /\ UNCHANGED <<linked, linkedRc>>

StartNext ==
    \E p \in Starters :
        /\ UNCHANGED startIdle
        /\ \/ NewWriteLock(p)
           \/ NewReadCount(p)
           \/ NewWriteFailed(p)
           \/ NewReturn(p)
           \/ OpenWriteLock(p)
           \/ OpenReadCount(p)
           \/ OpenUnlockFailed(p)
           \/ OpenReturn(p)
           \/ DropWriteLock(p)
           \/ DropReadCount(p)
           \/ DropCells(p)
           \/ StartLock(p)
           \/ StartCell(p)

StartSpec == StartInit /\ [][StartNext]_vars

(***************************************************************************)
(* The functions of graph_structure/ on their own (GraphSpec).  A String   *)
(* is a sequence of characters; the words of the DOT text that no input    *)
(* can split ("digraph", "label", "Struct", "->", the names of the         *)
(* statuses, ...) are single characters of the model.  A node is a record  *)
(* of its args and its execution_status, a BTreeMap<String, Node> is a     *)
(* function from its keys, a graph is the sequence of its node weights     *)
(* (node index i at position i + 1) and the sequence of its edges          *)
(* <<parent index, child index>> in the order of their insertion.          *)
(***************************************************************************)
Digits == <<"0", "1", "2", "3", "4", "5", "6", "7", "8", "9">>

\* The characters of the keys, in the order of their bytes.
KeyChars == Digits \o <<"a", "b", "c", "d">>

CharRank(c) == CHOOSE i \in 1..Len(KeyChars) : KeyChars[i] = c

\* char::is_ascii_digit
IsAsciiDigit(c) == \E i \in 1..Len(Digits) : Digits[i] = c

\* The decimal text of an index (Display of usize, as the DOT printer writes it).
RECURSIVE UsizeToString(_)
UsizeToString(n) ==
    IF n < 10 THEN <<Digits[n + 1]>>
    ELSE UsizeToString(n \div 10) \o <<Digits[(n % 10) + 1]>>

\* Ord of String: the order in which a BTreeMap<String, _> yields its keys.
RECURSIVE StrLess(_, _)
StrLess(a, b) ==
    IF b = <<>> THEN FALSE
    ELSE IF a = <<>> THEN TRUE
    ELSE IF Head(a) = Head(b) THEN StrLess(Tail(a), Tail(b))
    ELSE CharRank(Head(a)) < CharRank(Head(b))

\* nodes.into_iter(): the keys of the BTreeMap in ascending order.
SortedKeys(ks) ==
    [i \in 1..Cardinality(ks) |->
        CHOOSE k \in ks : Cardinality({j \in ks : StrLess(j, k)}) = i - 1]

\* Node::new
NodeNew(args) == [args |-> args, execution_status |-> NodeNewStatus]

\* node_string_id_to_node_index_map: graph.add_node is called in the order of the keys.
NodeIndexMap(ns) ==
    LET ks == SortedKeys(DOMAIN ns)
    IN  [k \in DOMAIN ns |-> (CHOOSE i \in 1..Len(ks) : ks[i] = k) - 1]

\* The edges new() adds: those whose parent and child are both keys of nodes.
AcceptedEdges(ns, es) ==
    SelectSeq(es, LAMBDA e : e[1] \in DOMAIN ns /\ e[2] \in DOMAIN ns)

\* graph.add_edge for every accepted edge, in the order of the vector.
GraphEdges(ns, es) ==
    LET ix == NodeIndexMap(ns)
        acc == AcceptedEdges(ns, es)
    IN  [i \in 1..Len(acc) |-> <<ix[acc[i][1]], ix[acc[i][2]]>>]

\* Variant of the node weights in which no edge changes a status.
GraphNodesKeepStatus(ns, es) ==
    LET ks == SortedKeys(DOMAIN ns)
    IN  [i \in 1..Len(ks) |-> ns[ks[i]]]

\* Variant of the node weights in which the child of every edge of the argument,
\* added or skipped, is NonExecutable.
GraphNodesAnyEdge(ns, es) ==
    LET ks == SortedKeys(DOMAIN ns)
    IN  [i \in 1..Len(ks) |->
            IF \E j \in 1..Len(es) : es[j][2] = ks[i]
            THEN [ns[ks[i]] EXCEPT !.execution_status = "NonExecutable"]
            ELSE ns[ks[i]]]

\* The node weights after the loop over the edges: the child of every added edge
\* is NonExecutable, every other node is as it was given.
GraphNodes(ns, es) ==
    LET ks == SortedKeys(DOMAIN ns)
        ge == GraphEdges(ns, es)
    IN  [i \in 1..Len(ks) |->
            IF \E j \in 1..Len(ge) : ge[j][2] = i - 1
            THEN [ns[ks[i]] EXCEPT !.execution_status = "NonExecutable"]
            ELSE ns[ks[i]]]

\* Variant without the cycle test.
OnCycleNone(n, gs) == {}

\* The node indices that lie on a directed cycle of the edges gs.
OnCycle(n, gs) == {i \in 0..(n - 1) : ReachIn(gs, i, i, n)}

\* DirectedAcyclicGraph::new: the results it can return.  Acyclic::try_from_graph
\* fails with a node that participates in a cycle (petgraph's Cycle::node_id).
DagOk(ns, gs) == [tag |-> "Ok", nodes |-> ns, edges |-> gs]
DagErr(n) == [tag |-> "Err", msg |-> "Cyclic graph supplied on", node_id |-> n]

DagNew(ns, es) ==
    LET gn == GraphNodes(ns, es)
        ge == GraphEdges(ns, es)
        cyc == OnCycle(Len(gn), ge)
    IN  IF cyc = {} THEN {DagOk(gn, ge)} ELSE {DagErr(n) : n \in cyc}

\* get_executable_node_indices
NodeIndices(g) == [i \in 1..Len(g.nodes) |-> i - 1]

GetExecutableNodeIndices(g) ==
    SelectSeq(NodeIndices(g), LAMBDA i : g.nodes[i + 1].execution_status = "Executable")

\* Variant of Node::execute that returns Ok for every status.
NodeExecuteAlwaysOk(n) == [tag |-> "Ok"]

\* Node::execute: the Result it returns.
NodeExecute(n) ==
    CASE n.execution_status = "Executed" ->
            [tag |-> "Err", msg |-> "Trying to execute node which has already been executed."]
      [] n.execution_status = "Executable" ->
            [tag |-> "Err", msg |-> "Trying to execute node which is not yet set for execution."]
      [] n.execution_status = "NonExecutable" ->
            [tag |-> "Err", msg |-> "Trying to execute node which is not executable."]
      [] n.execution_status = "Executing" -> [tag |-> "Ok"]

\* Node::execute takes &self: the node after the call.
NodeAfterExecute(n) == n

\* PartialEq of DirectedAcyclicGraph: node count, edge count, the node weight at
\* every index and the endpoints of every edge index.
GraphEq(a, b) ==
    /\ Len(a.nodes) = Len(b.nodes)
    /\ Len(a.edges) = Len(b.edges)
    /\ \A i \in 1..Len(a.nodes) : a.nodes[i] = b.nodes[i]
    /\ \A i \in 1..Len(a.edges) : a.edges[i] = b.edges[i]

\* Display of Node
NodeDisplay(n) ==
    <<"Struct", " ", "Node", ",", " ", "Node.args:", " ">> \o n.args
        \o <<",", " ", "Node.execution_status:", " ", n.execution_status>>

\* The label as the DOT printer writes it: a quote and a backslash get a backslash.
RECURSIVE Escape(_)
Escape(s) ==
    IF s = <<>> THEN <<>>
    ELSE (IF Head(s) \in {"\"", "\\"} THEN <<"\\", Head(s)>> ELSE <<Head(s)>>)
            \o Escape(Tail(s))

Indent == <<" ", " ", " ", " ">>

RECURSIVE NodeLines(_, _)
NodeLines(ns, i) ==
    IF i > Len(ns) THEN <<>>
    ELSE Indent \o UsizeToString(i - 1) \o <<" ", "[", " ", "label", " ", "=", " ", "\"">>
            \o Escape(NodeDisplay(ns[i])) \o <<"\"", " ", "]", "\n">>
            \o NodeLines(ns, i + 1)

RECURSIVE EdgeLines(_, _)
EdgeLines(gs, i) ==
    IF i > Len(gs) THEN <<>>
    ELSE Indent \o UsizeToString(gs[i][1]) \o <<" ", "->", " ">> \o UsizeToString(gs[i][2])
            \o <<" ", "[", " ", "]", "\n">>
            \o EdgeLines(gs, i + 1)

\* Display of DirectedAcyclicGraph: Dot with Config::EdgeNoLabel, which names every
\* node by its index.
DotText(g) ==
    <<"digraph", " ", "{", "\n">> \o NodeLines(g.nodes, 1) \o EdgeLines(g.edges, 1)
        \o <<"}", "\n">>

\* str::trim, str::split, str::starts_with, str::ends_with
Whitespace == {" ", "\n"}

RECURSIVE TrimStart(_)
TrimStart(s) ==
    IF s # <<>> /\ Head(s) \in Whitespace THEN TrimStart(Tail(s)) ELSE s

RECURSIVE TrimEnd(_)
TrimEnd(s) ==
    IF s # <<>> /\ s[Len(s)] \in Whitespace THEN TrimEnd(SubSeq(s, 1, Len(s) - 1)) ELSE s

Trim(s) == TrimEnd(TrimStart(s))

RECURSIVE Split(_, _)
Split(s, c) ==
    IF \A i \in 1..Len(s) : s[i] # c THEN <<s>>
    ELSE LET k == CHOOSE i \in 1..Len(s) : s[i] = c /\ \A j \in 1..(i - 1) : s[j] # c
         IN  <<SubSeq(s, 1, k - 1)>> \o Split(SubSeq(s, k + 1, Len(s)), c)

StartsWith(s, pre) == Len(s) >= Len(pre) /\ SubSeq(s, 1, Len(pre)) = pre

StripPrefix(s, pre) == SubSeq(s, Len(pre) + 1, Len(s))

EndsWith(s, c) == s # <<>> /\ s[Len(s)] = c

TrimAll(ss) == [i \in 1..Len(ss) |-> Trim(ss[i])]

AllAsciiDigits(s) == \A i \in 1..Len(s) : IsAsciiDigit(s[i])

\* FromStr of ExecutionStatus
StatusFromStr(s) ==
    IF Len(s) = 1 /\ s[1] \in Statuses THEN [tag |-> "Ok", val |-> s[1]]
    ELSE [tag |-> "Err",
          msg |-> "ExecutionStatus::from_str parsing error: Invalid execution status."]

ArgsPrefix == <<" ", "Node.args:", " ">>
StatusPrefix == <<" ", "Node.execution_status:", " ">>

\* FromStr of Node: the loop over the parts between the commas.
RECURSIVE NodeFromParts(_, _, _)
NodeFromParts(parts, i, n) ==
    IF i > Len(parts) THEN [tag |-> "Ok", val |-> n]
    ELSE IF StartsWith(parts[i], ArgsPrefix)
    THEN NodeFromParts(parts, i + 1, [n EXCEPT !.args = StripPrefix(parts[i], ArgsPrefix)])
    ELSE IF StartsWith(parts[i], StatusPrefix)
    THEN LET st == StatusFromStr(StripPrefix(parts[i], StatusPrefix))
         IN  IF st.tag = "Err" THEN st
             ELSE NodeFromParts(parts, i + 1, [n EXCEPT !.execution_status = st.val])
    ELSE NodeFromParts(parts, i + 1, n)

NodeFromStr(s) ==
    NodeFromParts(Split(Trim(s), ","), 1, [args |-> <<>>, execution_status |-> "Executable"])

\* Variant that keeps the ";".
StripSemicolonNever(line) == line

\* The line without the ";" it ends with.
StripSemicolon(line) ==
    IF EndsWith(line, ";") THEN SubSeq(line, 1, Len(line) - 1) ELSE line

\* line_split_space
LineSplitSpace(line) == TrimAll(Split(Trim(line), " "))

\* The tests of the three kinds of line.  An index past the end of
\* line_split_space panics.
NodeLineHead(t) ==
    /\ Len(t) >= 6
    /\ AllAsciiDigits(t[1])
    /\ t[2] = <<"[">>
    /\ t[3] = <<"label">>
    /\ t[4] = <<"=">>
    /\ t[5] = <<"\"", "Struct">>
    /\ t[6] = <<"Node", ",">>

EdgeLineHead(t) ==
    /\ Len(t) >= 4
    /\ AllAsciiDigits(t[1])
    /\ t[2] = <<"->">>
    /\ AllAsciiDigits(t[3])
    /\ t[4] = <<"[">>

IsNodeLine(t) == NodeLineHead(t) /\ Len(t) >= 7 /\ t[7] = <<"Node.args:">>

IsEdgeLine(t) == ~IsNodeLine(t) /\ EdgeLineHead(t) /\ Len(t) >= 5 /\ t[5] = <<"]">>

LinePanics(t) ==
    \/ NodeLineHead(t) /\ Len(t) = 6
    \/ ~IsNodeLine(t) /\ EdgeLineHead(t) /\ Len(t) = 4

IsChainLine(t) ==
    ~IsNodeLine(t) /\ ~IsEdgeLine(t) /\ Len(t) >= 3 /\ t[2] = <<"->">>

\* The loop over line_split_arrow: a node for every identifier that is not a key
\* yet and an edge from the identifier before it.
RECURSIVE ChainInsert(_, _, _)
ChainInsert(acc, ids, i) ==
    IF i > Len(ids) THEN acc
    ELSE LET ns == IF ids[i] \in DOMAIN acc.nodes THEN acc.nodes
                   ELSE [k \in DOMAIN acc.nodes \cup {ids[i]} |->
                            IF k = ids[i] THEN NodeNew(ids[i]) ELSE acc.nodes[k]]
             es == IF i >= 2 THEN Append(acc.edges, <<ids[i - 1], ids[i]>>)
                   ELSE acc.edges
         IN  ChainInsert([acc EXCEPT !.nodes = ns, !.edges = es], ids, i + 1)

\* One turn of the loop over the lines of from_str.
ParseLine(acc, raw) ==
    LET line == StripSemicolon(raw)
        t == LineSplitSpace(line)
    IN  IF acc.tag # "Ok" THEN acc
        ELSE IF LinePanics(t) THEN [acc EXCEPT !.tag = "panic"]
        ELSE IF IsNodeLine(t)
        THEN LET q == Split(line, "\"")
             IN  IF Len(q) < 2
                 THEN [acc EXCEPT !.tag = "Err",
                          !.msg = "DirectedAcyclicGraph::from_str parsing error: No node label."]
                 ELSE LET n == NodeFromStr(q[2])
                      IN  IF n.tag = "Err" THEN [acc EXCEPT !.tag = "Err", !.msg = n.msg]
                          ELSE [acc EXCEPT !.nodes =
                                   [k \in DOMAIN acc.nodes \cup {t[1]} |->
                                       IF k = t[1] THEN n.val ELSE acc.nodes[k]]]
        ELSE IF IsEdgeLine(t)
        THEN [acc EXCEPT !.edges = Append(acc.edges, <<t[1], t[3]>>)]
        ELSE IF IsChainLine(t)
        THEN ChainInsert(acc, TrimAll(Split(line, "->")), 1)
        ELSE acc

RECURSIVE ParseLines(_, _, _)
ParseLines(acc, lines, i) ==
    IF i > Len(lines) THEN acc
    ELSE ParseLines(ParseLine(acc, lines[i]), lines, i + 1)

NoNodes == [k \in {} |-> NodeNew(<<>>)]

\* FromStr of DirectedAcyclicGraph: the results it can return.
FromStr(s) ==
    LET start == [tag |-> "Ok", msg |-> "", nodes |-> NoNodes, edges |-> <<>>]
        acc == IF StartsWith(Trim(s), <<"digraph">>)
               THEN ParseLines(start, Split(Trim(s), "\n"), 1)
               ELSE start
    IN  IF acc.tag = "Ok" THEN DagNew(acc.nodes, acc.edges)
        ELSE {[tag |-> acc.tag, msg |-> acc.msg]}

(***************************************************************************)
(* GraphSpec: one caller applies the functions of graph_structure/ to an   *)
(* input: either the arguments of new() (a map of nodes and a vector of    *)
(* edges), on which it calls new(), then a method of the graph or the      *)
(* printing of the graph and from_str on the printed text; or a DOT text   *)
(* of compact chain lines, on which it calls from_str.                     *)
(***************************************************************************)
MaxSmallNodes == 3  \* nodes of the graphs with any status and any edge list
MaxSmallEdges == 2  \* edges of those graphs
MaxOrdinals == 11   \* nodes of the largest graph keyed "0", "1", ...
MaxChainLines == 2  \* chain lines of a compact DOT text
MaxChainLen == 3    \* identifiers of a chain line

\* The payloads (args) of the nodes; the key is appended where the nodes are to differ.
Payloads == {<<>>, <<"a">>, <<"a", " ", "b">>, <<"a", ",", "b">>, <<"a", "\"", "b">>}

\* The identifiers of the chain lines.
Idents == {<<"a">>, <<"b">>, <<"1", "0">>}

SeqsUpTo(S, lo, hi) == UNION {[1..k -> S] : k \in lo..hi}

\* The map of n nodes keyed "0" .. "n-1", of payload p (and the key, if keyed) and
\* status s.
OrdinalNodes(n, p, keyed, s) ==
    [k \in {UsizeToString(i) : i \in 0..(n - 1)} |->
        [args |-> IF keyed THEN p \o k ELSE p, execution_status |-> s]]

SmallInputs ==
    {[nodes |-> OrdinalNodes(n, p, keyed, s), edges |-> es] :
        n \in 0..MaxSmallNodes, p \in Payloads, keyed \in BOOLEAN, s \in Statuses,
        es \in SeqsUpTo({UsizeToString(i) : i \in 0..(MaxSmallNodes - 1)}
                            \X {UsizeToString(i) : i \in 0..(MaxSmallNodes - 1)},
                        0, MaxSmallEdges)}

OrdinalInputs ==
    UNION {{[nodes |-> OrdinalNodes(n, p, TRUE, NodeNewStatus), edges |-> es] :
                p \in Payloads,
                es \in SeqsUpTo({UsizeToString(i) : i \in {0, 1, n - 1}}
                                    \X {UsizeToString(i) : i \in {0, 1, n - 1}}, 0, 1)} :
            n \in (MaxSmallNodes + 1)..MaxOrdinals}

\* A compact DOT text: a chain line per element of cs, ended by ";" where semi says so.
RECURSIVE ChainLine(_, _)
ChainLine(ids, i) ==
    IF i > Len(ids) THEN <<>>
    ELSE (IF i > 1 THEN <<" ", "->", " ">> ELSE <<>>) \o ids[i] \o ChainLine(ids, i + 1)

RECURSIVE ChainLinesText(_, _, _)
ChainLinesText(cs, semi, i) ==
    IF i > Len(cs) THEN <<>>
    ELSE Indent \o ChainLine(cs[i], 1) \o (IF semi[i] THEN <<";">> ELSE <<>>) \o <<"\n">>
            \o ChainLinesText(cs, semi, i + 1)

ChainText(cs, semi) ==
    <<"digraph", " ", "{", "\n">> \o ChainLinesText(cs, semi, 1) \o <<"}", "\n">>

ChainInputs ==
    {[chains |-> cs, semi |-> semi, text |-> ChainText(cs, semi)] :
        <<cs, semi>> \in UNION {[1..k -> SeqsUpTo(Idents, 2, MaxChainLen)] \X [1..k -> BOOLEAN] :
                                   k \in 0..MaxChainLines}}

graphIdle == <<pc, at, att, attRc, wl, rc, shm, linked, linkedRc, self, node, queue, got,
               execCount, claimedBy, edges, cellVars, nodes, edgeVec>>

GraphInit ==
    /\ pc = <<>>
    /\ at = <<>>
    /\ att = <<>>
    /\ attRc = <<>>
    /\ wl = <<>>
    /\ rc = <<>>
    /\ shm = <<>>
    /\ linked = 0
    /\ linkedRc = 0
    /\ self = <<>>
    /\ node = <<>>
    /\ queue = <<>>
    /\ got = <<>>
    /\ execCount = <<>>
    /\ claimedBy = <<>>
    /\ edges = <<>>
    /\ objs = <<>>
    /\ named = <<>>
    /\ hnd = <<>>
    /\ bytes = <<>>
    /\ off = <<>>
    /\ arg = <<>>
    /\ stored = <<>>
    /\ hist = <<>>
    /\ ops = 0
    /\ dag = NoValue
    /\ parsed = NoValue
    /\ ret = NoValue
    /\ \/ \E inp \in SmallInputs \cup OrdinalInputs :
            /\ nodes = inp.nodes
            /\ edgeVec = inp.edges
            /\ text = <<>>
       \/ \E inp \in ChainInputs :
            /\ nodes = <<>>
            /\ edgeVec = <<>>
            /\ text = inp.text

\* DirectedAcyclicGraph::new(nodes, edges)
New ==
    /\ dag = NoValue
    /\ text = <<>>
    /\ dag' \in DagNew(nodes, edgeVec)
    /\ UNCHANGED <<text, parsed, ret>>

\* graph.get_executable_node_indices()
CallGetExecutableNodeIndices ==
    /\ dag.tag = "Ok"
    /\ ret = NoValue
    /\ text = <<>>
    /\ ret' = [fn |-> "get_executable_node_indices", val |-> GetExecutableNodeIndices(dag)]
    /\ UNCHANGED <<dag, text, parsed>>

\* graph[i].execute()
CallNodeExecute ==
    /\ dag.tag = "Ok"
    /\ ret = NoValue
    /\ text = <<>>
    /\ \E i \in 1..Len(dag.nodes) :
        /\ ret' = [fn |-> "execute", node |-> i - 1, val |-> NodeExecute(dag.nodes[i])]
        /\ dag' = [dag EXCEPT !.nodes[i] = NodeAfterExecute(dag.nodes[i])]
    /\ UNCHANGED <<text, parsed>>

\* format!("{}", graph)
Display ==
    /\ dag.tag = "Ok"
    /\ ret = NoValue
    /\ text = <<>>
    /\ text' = DotText(dag)
    /\ UNCHANGED <<dag, parsed, ret>>

\* DirectedAcyclicGraph::from_str(text)
CallFromStr ==
    /\ text # <<>>
    /\ parsed = NoValue
    /\ parsed' \in FromStr(text)
    /\ UNCHANGED <<dag, text, ret>>

GraphNext ==
    /\ UNCHANGED graphIdle
    /\ \/ New
       \/ CallGetExecutableNodeIndices
       \/ CallNodeExecute
       \/ Display
       \/ CallFromStr

GraphSpec == GraphInit /\ [][GraphNext]_vars

(***************************************************************************)
(* StatusSpec: a graph built by new() from nodes created with Node::new is *)
(* taken through the status changes of scheduling, one node at a time, and *)
(* at any moment printed and parsed back.  A status change is the          *)
(* assignment graph[i].execution_status = new of the compare-and-update    *)
(* (shm_graph.rs, line 34), made when the node has the status before new   *)
(* (lines 18-31); the scheduler asks for Executable only for a node whose  *)
(* parents are all Executed (the sweep of execute_graph.rs, lines 64-114). *)
(***************************************************************************)
StatusInputs ==
    {[nodes |-> OrdinalNodes(n, <<"a">>, TRUE, NodeNewStatus), edges |-> es] :
        n \in 1..MaxSmallNodes,
        es \in SeqsUpTo({UsizeToString(i) : i \in 0..(MaxSmallNodes - 1)}
                            \X {UsizeToString(i) : i \in 0..(MaxSmallNodes - 1)},
                        0, MaxSmallEdges)}

StatusInit ==
    /\ pc = <<>>
    /\ at = <<>>
    /\ att = <<>>
    /\ attRc = <<>>
    /\ wl = <<>>
    /\ rc = <<>>
    /\ shm = <<>>
    /\ linked = 0
    /\ linkedRc = 0
    /\ self = <<>>
    /\ node = <<>>
    /\ queue = <<>>
    /\ got = <<>>
    /\ execCount = <<>>
    /\ claimedBy = <<>>
    /\ edges = <<>>
    /\ objs = <<>>
    /\ named = <<>>
    /\ hnd = <<>>
    /\ bytes = <<>>
    /\ off = <<>>
    /\ arg = <<>>
    /\ stored = <<>>
    /\ hist = <<>>
    /\ ops = 0
    /\ dag = NoValue
    /\ parsed = NoValue
    /\ ret = NoValue
    /\ text = <<>>
    /\ \E inp \in StatusInputs :
            /\ nodes = inp.nodes
            /\ edgeVec = inp.edges

\* The parents of the node of index n in graph g are all Executed.
ParentsExecuted(g, n) ==
    \A j \in 1..Len(g.edges) :
        g.edges[j][2] = n => g.nodes[g.edges[j][1] + 1].execution_status = "Executed"

\* One status change of scheduling on the node of index i - 1.
SetStatus ==
    /\ dag.tag = "Ok"
    /\ text = <<>>
    /\ \E i \in 1..Len(dag.nodes), new \in {"Executable", "Executing", "Executed"} :
          /\ dag.nodes[i].execution_status = OldExecutionStatus(new)
          /\ new = "Executable" => ParentsExecuted(dag, i - 1)
          /\ dag' = [dag EXCEPT !.nodes[i].execution_status = new]
    /\ UNCHANGED <<text, parsed, ret>>

StatusNext ==
    /\ UNCHANGED graphIdle
    /\ \/ New
       \/ SetStatus
       \/ Display
       \/ CallFromStr

StatusSpec == StatusInit /\ [][StatusNext]_vars

(***************************************************************************)
(* PrefixSpec: the creation of the mapping at the entry of execute()       *)
(* (execute_graph.rs, lines 11-18) for a prefix drawn from a bounded set   *)
(* of strings, with the texts of the errors.  text is the prefix passed to *)
(* execute(), linked tells whether the write_lock semaphore of the prefix  *)
(* exists, ret is what PosixSharedMemory::new returned and at[1] the arm   *)
(* of the match taken: "new", "open" (the fallback) or "new_err".  The     *)
(* literal parts of the format strings are single elements of a text.      *)
(***************************************************************************)
MaxPrefixLen == 3   \* characters of a prefix

PrefixChars == {"a", "_", "/"}
Prefixes == SeqsUpTo(PrefixChars, 1, MaxPrefixLen)

\* filename_prefix.replace("/", "_") (posix_shared_memory.rs, lines 38 and 61)
ReplaceSlash(s) == [i \in 1..Len(s) |-> IF s[i] = "/" THEN "_" ELSE s[i]]

\* The error of Semaphore::create for a name that exists, errno 17
\* (semaphore.rs, lines 15-20 and 45-46).
CreateError(name) ==
    <<"Failed to create semaphore ">> \o name \o <<": ", "File exists", " (errno: ", "17", ")">>

\* The error PosixSharedMemory::new returns when the write_lock semaphore of the
\* prefix exists (posix_shared_memory.rs, lines 38-42).
NewWriteLockError(prefix) ==
    <<"Failed to create write_lock: ">>
        \o CreateError(<<"/">> \o ReplaceSlash(prefix) \o <<"_write_lock">>)

\* The text the guard of the fallback arm compares the error with
\* (execute_graph.rs, lines 13-16).
FallbackErrorText(prefix) ==
    <<"Failed to create write_lock: ", "Failed to create semaphore ", "/">>
        \o prefix \o <<"_write_lock", ": ", "File exists", " (errno: ", "17", ")">>

PrefixInit ==
    /\ pc = <<"init">>
    /\ at = <<"none">>
    /\ linked \in {0, Elder}
    /\ linkedRc = linked
    /\ text \in Prefixes
    /\ ret = NoValue
    /\ att = <<>>
    /\ attRc = <<>>
    /\ wl = <<>>
    /\ rc = <<>>
    /\ shm = <<>>
    /\ self = <<>>
    /\ node = <<>>
    /\ queue = <<>>
    /\ got = <<>>
    /\ execCount = <<>>
    /\ claimedBy = <<>>
    /\ edges = <<>>
    /\ objs = <<>>
    /\ named = <<>>
    /\ hnd = <<>>
    /\ bytes = <<>>
    /\ off = <<>>
    /\ arg = <<>>
    /\ stored = <<>>
    /\ hist = <<>>
    /\ ops = 0
    /\ nodes = <<>>
    /\ edgeVec = <<>>
    /\ dag = NoValue
    /\ parsed = NoValue

prefixIdle == <<att, attRc, wl, rc, shm, self, node, queue, got, execCount, claimedBy, edges,
               cellVars, nodes, edgeVec, dag, parsed, text>>

\* PosixSharedMemory::new(&filename_suffix, &self) returns to execute().
CallNew ==
    /\ pc[1] = "init"
    /\ IF linked = 0
       THEN /\ linked' = 1
            /\ linkedRc' = 1
            /\ ret' = [tag |-> "Ok"]
       ELSE /\ ret' = [tag |-> "Err", msg |-> NewWriteLockError(text)]
            /\ UNCHANGED <<linked, linkedRc>>
    /\ pc' = [pc EXCEPT ![1] = "new_ret"]
    /\ UNCHANGED at

\* The match on the result of new (lines 11-18).
MatchNew ==
    /\ pc[1] = "new_ret"
    /\ at' = [at EXCEPT ![1] =
                IF ret.tag = "Ok" THEN "new"
                ELSE IF ret.msg = FallbackErrorText(text) THEN "open"
                ELSE "new_err"]
    /\ pc' = [pc EXCEPT ![1] = "matched"]
    /\ UNCHANGED <<linked, linkedRc, ret>>

PrefixNext ==
    /\ UNCHANGED prefixIdle
    /\ \/ CallNew
       \/ MatchNew

PrefixSpec == PrefixInit /\ [][PrefixNext]_vars

(***************************************************************************)
(* ShmMappingSpec: the mapping of the dag crate                            *)
(* (dag/src/shared_memory/shm_mapping.rs).  Processes attached to one      *)
(* mapping call read, write and write_on_equal_to_shm in any order.  The   *)
(* lock functions of the crate (dag/src/shared_memory/rwlock.rs) are those *)
(* of the lock steps above, statement for statement, but for read_unlock,  *)
(* which begins with a blocking wait on read_count ("dru_wait") instead of *)
(* a try_wait.  The bytes of the mapping are read and written in one step  *)
(* under the lock; stored is the value they hold.  "some_ret" is the       *)
(* return of Some(stored value) by write_on_equal_to_shm (line 158).       *)
(***************************************************************************)
ShmMappingInit ==
    /\ pc = [p \in Procs |-> "idle"]
    /\ at = [p \in Procs |-> "none"]
    /\ att = [p \in Procs |-> 1]
    /\ attRc = [p \in Procs |-> 1]
    /\ wl = [m \in {1} |-> WriteLockInitial]
    /\ rc = [m \in {1} |-> ReadCountInitial]
    /\ arg = [p \in Procs |-> NoArg]
    /\ got = [p \in Procs |-> NoData]
    /\ stored = InitialData
    /\ hist = <<>>
    /\ ops = 0
    /\ objs = <<>>
    /\ named = <<>>
    /\ hnd = <<>>
    /\ bytes = <<>>
    /\ off = <<>>
    /\ shm = <<>>
    /\ linked = 1
    /\ linkedRc = 1
    /\ self = <<>>
    /\ node = <<>>
    /\ queue = <<>>
    /\ execCount = <<>>
    /\ claimedBy = <<>>
    /\ edges = <<>>
    /\ GraphIdle

shmMappingIdle == <<att, attRc, shm, linked, linkedRc, self, node, queue, execCount, claimedBy,
                   edges, graphVars, objs, named, hnd, bytes, off, hist>>

\* ShmMapping::read, ::write(d) or ::write_on_equal_to_shm(e, d) is called and goes
\* on to read_lock() or write_lock() (lines 112, 131, 150).
ShmMappingCall(p, kind, e, d) ==
    /\ pc[p] = "idle"
    /\ ops < MaxOps
    /\ ops' = ops + 1
    /\ at' = [at EXCEPT ![p] = kind]
    /\ arg' = [arg EXCEPT ![p] = [NoArg EXCEPT !.exp = e, !.new = d]]
    /\ pc' = [pc EXCEPT ![p] = IF kind = "read" THEN "rl_wait" ELSE "wl_wait"]
    /\ UNCHANGED <<wl, rc, got, stored>>

\* read: the bytes are read under the read lock, then read_unlock (lines 115-119).
ShmMappingRead(p) ==
    /\ pc[p] = "rd_held"
    /\ got' = [got EXCEPT ![p] = stored]
    /\ pc' = [pc EXCEPT ![p] = "dru_wait"]
    /\ UNCHANGED <<at, arg, wl, rc, stored, ops>>

\* read_unlock of the dag crate: read_count.wait() (rwlock.rs, line 27); the probe
\* that follows is that of ReadUnlockProbe and ReadUnlockCorrect.
ReadUnlockWait(p) ==
    /\ pc[p] = "dru_wait"
    /\ SemCanWait(rc[attRc[p]])
    /\ rc' = [rc EXCEPT ![attRc[p]] = SemWait(@)]
    /\ pc' = [pc EXCEPT ![p] = "ru_probe"]
    /\ UNCHANGED <<at, arg, wl, got, stored, ops>>

\* write: the bytes are written under the write lock, then write_unlock (134-137).
ShmMappingWrite(p) ==
    /\ pc[p] = "wr_held"
    /\ at[p] = "write"
    /\ stored' = arg[p].new
    /\ pc' = [pc EXCEPT ![p] = "wu_post"]
    /\ UNCHANGED <<at, arg, wl, rc, got, ops>>

\* write_on_equal_to_shm under the write lock (lines 153-162): the bytes are read
\* and compared; on equality data_write is written and the function goes on to
\* write_unlock(), otherwise it returns Some(data_in_shm) from line 158.
WriteOnEqualToShm(p) ==
    /\ pc[p] = "wr_held"
    /\ at[p] = "on_equal"
    /\ IF stored = arg[p].exp
       THEN /\ stored' = arg[p].new
            /\ pc' = [pc EXCEPT ![p] = "wu_post"]
            /\ UNCHANGED got
       ELSE /\ got' = [got EXCEPT ![p] = stored]
            /\ pc' = [pc EXCEPT ![p] = "some_ret"]
            /\ UNCHANGED stored
    /\ UNCHANGED <<at, arg, wl, rc, ops>>

\* The operation returned to its caller.
ShmMappingReturn(p) ==
    /\ pc[p] \in {"ru_ret", "wu_ret", "some_ret"}
    /\ pc' = [pc EXCEPT ![p] = "idle"]
    /\ at' = [at EXCEPT ![p] = "none"]
    /\ arg' = [arg EXCEPT ![p] = NoArg]
    /\ got' = [got EXCEPT ![p] = NoData]
    /\ UNCHANGED <<wl, rc, stored, ops>>

ShmMappingLock(p) ==
    /\ LockStep(p)
    /\ UNCHANGED <<at, arg, got, stored, ops>>

ShmMappingNext ==
    \E p \in Procs :
        /\ UNCHANGED shmMappingIdle
        /\ \/ ShmMappingCall(p, "read", NoData, NoData)
           \/ \E d \in DataSet : ShmMappingCall(p, "write", NoData, d)
           \/ \E e \in DataSet \cup {InitialData}, d \in DataSet :
                 ShmMappingCall(p, "on_equal", e, d)
           \/ ShmMappingLock(p)
           \/ ShmMappingRead(p)
           \/ ReadUnlockWait(p)
           \/ ShmMappingWrite(p)
           \/ WriteOnEqualToShm(p)
           \/ ShmMappingReturn(p)

ShmMappingSpec == ShmMappingInit /\ [][ShmMappingNext]_vars

(***************************************************************************)
(* Properties of the scheduler (Spec).                                     *)
(***************************************************************************)
RECURSIVE SumExec(_, _)
SumExec(ms, n) ==
    IF ms = {} THEN 0
    ELSE LET m == CHOOSE x \in ms : TRUE
         IN  execCount[m][n] + SumExec(ms \ {m}, n)

\* Calls of execute() on node n by all workers started with the prefix.
TotalExec(n) == SumExec(Workers, n)

\* Worker w has claimed node n (its update to Executing is written) and has not yet
\* written the update to Executed.
InClaim(w, n) ==
    /\ node[w] = n
    /\ \/ at[w] = "claim" /\ pc[w] \in {"wu_post", "wu_ret"} /\ got[w] = NoGraph
       \/ pc[w] = "exec"
       \/ at[w] = "commit" /\ pc[w] \in {"wl_wait", "wl_try", "wl_corr", "wr_held", "cas_write"}

\* The claim of worker w returned (or is about to return) Some(graph).
ClaimLost(w) == at[w] = "claim" /\ pc[w] \in {"wu_post", "wu_ret"} /\ got[w] # NoGraph

Ancestors(c) == {a \in Nodes : ReachIn(edges, a, c, NumNodes)}

C6_NoWorkerFails == \A w \in Workers : pc[w] # "err"

C8_WriterExcludesReaders ==
    \A p \in DOMAIN pc, q \in DOMAIN pc : (p # q /\ HoldsWrite(p)) => ~HoldsRead(q)

\* C9: at most one process holds the write lock, and no read_lock() returns while
\* another process holds the write lock.
C9_WriterExclusive ==
    /\ [](Cardinality({p \in DOMAIN pc : HoldsWrite(p)}) <= 1)
    /\ [][\A p \in DOMAIN pc :
            (~HoldsRead(p) /\ HoldsRead(p)') =>
                \A q \in DOMAIN pc : q # p => ~HoldsWrite(q)]_vars

\* A process holds the write lock while a reader and a writer wait for write_lock.
C9_Witness ==
    \E p \in DOMAIN pc, q \in DOMAIN pc, r \in DOMAIN pc :
        /\ HoldsWrite(p)
        /\ pc[q] = "rl_wait"
        /\ pc[r] = "wl_wait"

\* C10: read_unlock() of a process that holds a read lock never returns the error
\* of a read_count equal to 0.
C10_ReadUnlockSucceeds == \A p \in DOMAIN pc : pc[p] # "ru_err"

(***************************************************************************)
(* Properties of the mapping's cells (CellSpec).                           *)
(***************************************************************************)
\* read() of process p is about to return the data got[p].
ReadDone(p) == pc[p] = "ru_ret" /\ at[p] = "read"

\* write_to_shm of process p has just returned to write() or the compare-and-swap.
WriteDone(p) == pc[p] = "wu_post" /\ at[p] \in {"write", "cas"} /\ got[p] = <<>>

\* Some process is inside write_to_shm.
WriteInProgress == \E q \in DOMAIN pc : pc[q] \in {"wts", "wts_pop", "wts_err"}

\* Every handle a process holds is the handle of the cell its offset names now.
NoStaleHandle ==
    \A q \in DOMAIN pc : \A i \in 1..Len(hnd[q]) : hnd[q][i] = named[i - 1]

\* C11: the data a read() returns is the data of one write: of a completed one or of
\* one whose bytes are all stored.
C11_NoTornRead ==
    \A p \in DOMAIN pc :
        ReadDone(p) =>
            \/ \E k \in 1..Len(hist) : got[p] = hist[k]
            \/ \E q \in DOMAIN pc : pc[q] = "wts_pop" /\ got[p] = arg[q].new

\* C12: a read() called after the last completed write, with no write in progress
\* since, returns the data of that write.
C12_ReadsLastWrite ==
    \A p \in DOMAIN pc :
        (ReadDone(p) /\ arg[p].seen = Len(hist) /\ ~WriteInProgress) => got[p] = stored

\* C13: when write_to_shm has returned for data of L bytes, the writer holds 8 + L
\* handles, the first 8 cells it holds encode 8 + L, and no name is left of the
\* offsets from 8 + L on that the writer held a handle of before the write.
C13_WriteCellAccounting ==
    \A p \in DOMAIN pc :
        WriteDone(p) =>
            LET total == UsizeBufLen + Len(arg[p].new) IN
            /\ Len(hnd[p]) = total
            /\ FromBeBytes([i \in 1..UsizeBufLen |-> objs[hnd[p][i]].v]) = total
            /\ \A i \in CellIdx : (total <= i /\ i < arg[p].held) => named[i] = 0

\* A write of 1 byte has returned to a process that held the 10 handles of 2 bytes.
C13_Witness ==
    \E p \in DOMAIN pc :
        /\ WriteDone(p)
        /\ Len(arg[p].new) = 1
        /\ arg[p].held = UsizeBufLen + 2
        /\ Len(hnd[p]) = UsizeBufLen + 1
        /\ named[UsizeBufLen + 1] = 0

\* C14: a compare-and-swap that returns None found the expected data stored and has
\* stored the new data; one that returns Some returns the stored data, which is not
\* the expected data, and has stored nothing.
C14_CompareAndSwap ==
    \A p \in DOMAIN pc :
        (pc[p] = "wu_post" /\ at[p] = "cas") =>
            IF got[p] = <<>>
            THEN /\ stored = arg[p].new
                 /\ Len(hist) >= 2
                 /\ hist[Len(hist) - 1] = arg[p].exp
            ELSE /\ got[p] = stored
                 /\ got[p] # arg[p].exp

\* C14 where no process holds a handle of a cell whose name was removed: the
\* comparison and the write are then one atomic operation on the stored data.
C14_NoStaleHandle == NoStaleHandle => C14_CompareAndSwap

(***************************************************************************)
(* Properties of the start and the end of a mapping (StartSpec).           *)
(***************************************************************************)
\* p fell back to open and open returned an error or panicked.
OpenFailed(p) == at[p] = "open_err" \/ (at[p] = "open" /\ pc[p] = "panic")

\* C15: of the workers that start with one prefix, every worker whose create fails
\* finds the write_lock semaphore existing and falls back to open, and its open
\* succeeds and returns a complete graph, the creator's initial graph (no graph is
\* written later in StartSpec), at whatever point of the creator's new or drop the
\* worker runs: no create fails for another reason, no open returns an error or
\* panics, and an open that returned has read the initial graph.
C15_OpenAlwaysSucceeds ==
    \A p \in DOMAIN pc :
        /\ at[p] # "new_err"
        /\ ~OpenFailed(p)
        /\ (at[p] = "open" /\ pc[p] = "ready") => got[p] = InitialData

\* C16: a process that stores to a cell (the write loop of write_to_shm, the initial
\* write of new included) holds the write lock, and a process that loads a cell (the
\* read loops of read_from_shm) holds the read lock or the write lock.
C16_CellAccessUnderLock ==
    \A p \in DOMAIN pc :
        /\ pc[p] = "wts" => HoldsWrite(p)
        /\ pc[p] \in {"rfs_len", "rfs_data"} => (HoldsRead(p) \/ HoldsWrite(p))

\* The half of C16 about loads: it holds in StartSpec and in CellSpec.
C16_LoadsUnderLock ==
    \A p \in DOMAIN pc :
        pc[p] \in {"rfs_len", "rfs_data"} => (HoldsRead(p) \/ HoldsWrite(p))

(***************************************************************************)
(* Locks and the scheduler loop (Spec).                                    *)
(***************************************************************************)
\* The workers attached to mapping m that have taken the unit of write_lock (by the
\* wait of read_lock or of write_lock) and not yet posted it.
WriteLockTakers(m) ==
    {v \in Workers : att[v] = m /\ pc[v] \in {"rl_try", "rl_corr", "rl_post", "rl_rel",
                                              "wl_try", "wl_corr", "wr_held", "cas_write",
                                              "wu_post"}}

\* The workers attached to m whose registration is in read_count: readers between
\* the post of read_lock and the decrement of read_unlock, and readers whose
\* read_unlock returned its error without a decrement.
ReadCountOwners(m) ==
    {v \in Workers : /\ att[v] = m
                     /\ \/ pc[v] \in {"rl_rel", "rd_held", "ru_try", "ru_err"}
                        \/ pc[v] = "err" /\ at[v] \in {"open", "top", "sleep", "sweep"}}

\* The workers attached to m whose probe has decremented read_count and will post it.
ReadCountProbers(m) ==
    {v \in Workers : att[v] = m /\ pc[v] \in {"rl_corr", "wl_corr", "ru_corr"}}

\* C17: while a worker runs execute() of a node it holds neither the read lock nor
\* the write lock: the read() and the compare-and-update it called before have
\* returned, and the two semaphores of its mapping hold nothing of it -- write_lock
\* is 1 unless another worker has taken it, and read_count counts other workers only.
C17_NoLockWhileExecuting ==
    \A w \in Workers :
        pc[w] = "exec" =>
            /\ ~HoldsRead(w)
            /\ ~HoldsWrite(w)
            /\ wl[att[w]] + Cardinality(WriteLockTakers(att[w])) = WriteLockInitial
            /\ rc[att[w]] = ReadCountInitial + Cardinality(ReadCountOwners(att[w]))
                                - Cardinality(ReadCountProbers(att[w]))

\* A worker executes a node while another worker of the mapping holds the write lock.
C17_Witness ==
    \E w, v \in Workers :
        /\ w # v
        /\ pc[w] = "exec"
        /\ att[v] = att[w]
        /\ pc[v] = "wr_held"
        /\ wl[att[w]] = 0

(***************************************************************************)
(* Failed compare-and-updates (ForeignSpec).                               *)
(***************************************************************************)
\* The compare-and-update returns Some(graph) to worker w in this step.
CasFailureReturns(w) == pc[w] = "wu_ret" /\ got[w] # NoGraph /\ pc'[w] # "wu_ret"

\* C18: when a claiming compare-and-update fails the worker goes on: it adopts the
\* returned graph and selects an Executable node of it again (calls the
\* compare-and-update on the first one, or leaves the loop as the code does when
\* there is none).  When a compare-and-update that commits Executed fails the worker
\* returns an error in that step, the shared graph is as the failed call read it, and
\* no child is swept.
C18_CasFailureHandling ==
    [][\A w \in Workers :
          /\ (pc[w] = "wu_post" /\ got[w] # NoGraph) => shm[att[w]] = got[w]
          /\ (CasFailureReturns(w) /\ at[w] = "claim") =>
                /\ self'[w] = got[w]
                /\ pc'[w] # "err"
                /\ GetExecutableNodeIndex(got[w]) # NoNode =>
                      /\ pc'[w] = "wl_wait"
                      /\ at'[w] = "claim"
                      /\ node'[w] = GetExecutableNodeIndex(got[w])
          /\ (CasFailureReturns(w) /\ at[w] = "commit") =>
                /\ pc'[w] = "err"
                /\ shm' = shm
                /\ at'[w] = "commit"
                /\ queue'[w] = queue[w]
                /\ self'[w] = self[w]
      ]_vars

\* A worker has returned the error of a failed commit while the compare-and-update
\* of the other worker's claim is returning Some(graph).
C18_Witness ==
    \E w, v \in Workers :
        /\ pc[w] = "err"
        /\ at[w] = "commit"
        /\ pc[v] = "wu_ret"
        /\ at[v] = "claim"
        /\ got[v] # NoGraph

(***************************************************************************)
(* Lock functions called one after another (SeqSpec).                      *)
(***************************************************************************)
\* C19: with no two lock functions running at the same time, read_lock returns with
\* read_count one above its value at the call and write_lock at 1; read_unlock
\* returns Ok with read_count one below its value at the call; write_lock, which
\* returns only when it found no reader, returns with write_lock 0 and read_count 0;
\* write_unlock returns with write_lock 1.
C19_SequentialLockCounts ==
    \A p \in DOMAIN pc :
        /\ (pc[p] = "rd_held" /\ arg[p].fn = "read_lock") =>
              /\ rc[attRc[p]] = arg[p].rc + 1
              /\ wl[att[p]] = 1
        /\ pc[p] # "ru_err"
        /\ (pc[p] = "ru_ret" /\ arg[p].fn = "read_unlock") =>
              /\ rc[attRc[p]] = arg[p].rc - 1
              /\ wl[att[p]] = arg[p].wl
        /\ (pc[p] = "wr_held" /\ arg[p].fn = "write_lock") =>
              /\ arg[p].rc = 0
              /\ wl[att[p]] = 0
              /\ rc[attRc[p]] = 0
        /\ (pc[p] = "wu_ret" /\ arg[p].fn = "write_unlock") =>
              /\ wl[att[p]] = 1
              /\ rc[attRc[p]] = arg[p].rc

\* The second read_lock of the test has returned: read_count went from 1 to 2.
C19_Witness ==
    \E p \in DOMAIN pc :
        /\ pc[p] = "rd_held"
        /\ arg[p].fn = "read_lock"
        /\ arg[p].rc = 1
        /\ rc[attRc[p]] = 2
        /\ wl[att[p]] = 1

(***************************************************************************)
(* The names of the two semaphores (StartSpec).                            *)
(***************************************************************************)
\* p drops a semaphore handle in this step.
DropsWriteLock(p) == pc[p] \in {"ready", "drop_wl"} /\ pc'[p] = "drop_rc"
DropsReadCount(p) == pc[p] = "drop_rc" /\ pc'[p] = "drop_cells"

\* C20: a name of a semaphore goes only in the step in which the process that created
\* the semaphore drops its handle of it; the drop of handles obtained by open changes
\* neither the names nor the values of the semaphores, which stay usable; and once
\* no process holds a created handle any more (the creator has dropped the mapping)
\* a create of write_lock and of read_count under the prefix succeeds again.
C20_CreatorUnlinksNames ==
    [][/\ (linked # 0 /\ linked' # linked) =>
              /\ linked' = 0
              /\ \E p \in Starters : DropsWriteLock(p) /\ att[p] = p /\ linked = p
       /\ (linkedRc # 0 /\ linkedRc' # linkedRc) =>
              /\ linkedRc' = 0
              /\ \E p \in Starters : DropsReadCount(p) /\ attRc[p] = p /\ linkedRc = p
       /\ \A p \in Starters :
              ((DropsWriteLock(p) \/ DropsReadCount(p)) /\ at[p] \in {"open", "open_err"}) =>
                  /\ linked' = linked
                  /\ linkedRc' = linkedRc
                  /\ wl' = wl
                  /\ rc' = rc
       /\ \A q \in Starters :
              /\ ( /\ pc[q] = "init"
                   /\ pc'[q] # "init"
                   /\ linked # Elder
                   /\ \A p \in Starters : att[p] # p ) =>
                      (pc'[q] = "new_rc" /\ linked' = q /\ wl'[q] = 1)
              /\ ( /\ pc[q] = "new_rc"
                   /\ pc'[q] # "new_rc"
                   /\ linkedRc # Elder
                   /\ \A p \in Starters \ {q} : attRc[p] # p ) =>
                      (pc'[q] = "wts" /\ linkedRc' = q /\ rc'[q] = 0)
      ]_vars

\* The creator has dropped its mapping and another process has created the mapping
\* under the same prefix again.
C20_Witness ==
    \E p, q \in Starters :
        /\ p # q
        /\ at[p] = "new"
        /\ pc[p] = "done"
        /\ at[q] = "new"
        /\ pc[q] = "ready"
        /\ linked = q
        /\ linkedRc = q

(***************************************************************************)
(* Properties of the graph structure (GraphSpec).                          *)
(***************************************************************************)
\* Every node given to new() was created with Node::new.
AllNodesNew == \A k \in DOMAIN nodes : nodes[k].execution_status = "Executable"

\* An edge of the argument of new() that names two keys points to the key k.
HasAcceptedEdgeTo(k) ==
    \E j \in 1..Len(edgeVec) :
        /\ edgeVec[j][1] \in DOMAIN nodes
        /\ edgeVec[j][2] \in DOMAIN nodes
        /\ edgeVec[j][2] = k

\* new() has returned a graph and no method has been called on it yet.
Built == dag.tag = "Ok" /\ ret = NoValue

\* C21: in a graph built by new() from nodes created with Node::new, the node of
\* key k is NonExecutable if an accepted edge points to k and Executable if none
\* does, and get_executable_node_indices() returns the indices of exactly the
\* nodes without incoming accepted edge, in increasing order.
C21_InitialStatuses ==
    (dag.tag = "Ok" /\ AllNodesNew) =>
        /\ Built =>
              \A k \in DOMAIN nodes :
                 dag.nodes[NodeIndexMap(nodes)[k] + 1].execution_status =
                    IF HasAcceptedEdgeTo(k) THEN "NonExecutable" ELSE "Executable"
        /\ (ret # NoValue /\ ret.fn = "get_executable_node_indices") =>
              /\ {ret.val[i] : i \in 1..Len(ret.val)} =
                    {NodeIndexMap(nodes)[k] : k \in {j \in DOMAIN nodes : ~HasAcceptedEdgeTo(j)}}
              /\ \A i \in 1..(Len(ret.val) - 1) : ret.val[i] < ret.val[i + 1]

\* get_executable_node_indices() has returned one of the two nodes of a graph
\* built from an edge between two keys and an edge that names no key.
C21_Witness ==
    /\ dag.tag = "Ok"
    /\ AllNodesNew
    /\ Len(dag.nodes) = 2
    /\ Len(edgeVec) = 2
    /\ Len(dag.edges) = 1
    /\ ret # NoValue
    /\ ret.fn = "get_executable_node_indices"
    /\ Len(ret.val) = 1

\* The key k lies on a directed cycle of the accepted edges (a self-loop included).
KeyOnCycle(k) ==
    ReachIn(AcceptedEdges(nodes, edgeVec), k, k, Cardinality(DOMAIN nodes))

\* C22: new() returns a graph if and only if no key lies on a directed cycle of the
\* accepted edges, a self-loop being a cycle; otherwise it returns the cyclic-graph
\* error with the index of a node on a cycle, and no graph.
C22_AcyclicOrError ==
    dag # NoValue =>
        /\ dag.tag \in {"Ok", "Err"}
        /\ dag.tag = "Ok" <=> ~\E k \in DOMAIN nodes : KeyOnCycle(k)
        /\ dag.tag = "Err" =>
              /\ dag.msg = "Cyclic graph supplied on"
              /\ \E k \in DOMAIN nodes :
                    KeyOnCycle(k) /\ dag.node_id = NodeIndexMap(nodes)[k]

\* new() has returned the error for a cycle through two of three nodes.
C22_Witness ==
    /\ dag.tag = "Err"
    /\ Cardinality(DOMAIN nodes) = 3
    /\ \A j \in 1..Len(edgeVec) : edgeVec[j][1] # edgeVec[j][2]
    /\ \E k \in DOMAIN nodes : ~KeyOnCycle(k)

\* The error Node::execute is to return for a status other than Executing.
ExecuteErrorOf(st) ==
    CASE st = "NonExecutable" -> "Trying to execute node which is not executable."
      [] st = "Executable" -> "Trying to execute node which is not yet set for execution."
      [] st = "Executed" -> "Trying to execute node which has already been executed."

\* C23: Node::execute returns Ok if and only if the node is Executing, returns the
\* error of the node's status otherwise (a different one for NonExecutable,
\* Executable and Executed), and leaves the graph, hence the node's status and
\* payload, as new() built it.
C23_ExecuteByStatus ==
    (ret # NoValue /\ ret.fn = "execute") =>
        /\ dag \in DagNew(nodes, edgeVec)
        /\ LET st == dag.nodes[ret.node + 1].execution_status
           IN  IF st = "Executing" THEN ret.val = [tag |-> "Ok"]
               ELSE ret.val = [tag |-> "Err", msg |-> ExecuteErrorOf(st)]
        /\ \A a, b \in Statuses \ {"Executing"} :
              a # b => ExecuteErrorOf(a) # ExecuteErrorOf(b)

\* Node::execute has returned Ok for an Executing node.
C23_Witness ==
    /\ ret # NoValue
    /\ ret.fn = "execute"
    /\ ret.val.tag = "Ok"
    /\ dag.nodes[ret.node + 1].execution_status = "Executing"

\* from_str has returned for the text printed from the graph that new() built.
Reparsed == dag.tag = "Ok" /\ parsed # NoValue

\* C24: parsing the printed DOT text of a graph built by new() from nodes keyed by
\* the decimal ordinals yields a graph equal to it: the same node weight at every
\* index and the same endpoints of every edge.
C24_PrintParseRoundTrip ==
    Reparsed => parsed.tag = "Ok" /\ GraphEq(dag, parsed)

\* The part of C24 that holds: at most ten nodes, whose payloads contain neither a
\* comma nor a quote.
C24_RoundTripUpToTen ==
    (/\ Reparsed
     /\ Len(dag.nodes) <= 10
     /\ \A i \in 1..Len(dag.nodes) : \A j \in 1..Len(dag.nodes[i].args) :
            dag.nodes[i].args[j] \notin {",", "\""})
        => parsed.tag = "Ok" /\ GraphEq(dag, parsed)

\* The arguments of new() that the chains cs stand for: a node Node::new(id) for
\* every identifier id and an edge for every two consecutive identifiers of a chain.
ChainNodesOf(cs) ==
    [k \in UNION {{cs[i][j] : j \in 1..Len(cs[i])} : i \in 1..Len(cs)} |->
        [args |-> k, execution_status |-> "Executable"]]

RECURSIVE ChainEdgesOf(_, _)
ChainEdgesOf(cs, i) ==
    IF i > Len(cs) THEN <<>>
    ELSE [j \in 1..(Len(cs[i]) - 1) |-> <<cs[i][j], cs[i][j + 1]>>] \o ChainEdgesOf(cs, i + 1)

\* C25: from_str of a digraph whose body is the chain lines cs, each with or
\* without a ";" at its end, returns what new() returns for one node per
\* identifier, of payload the identifier, and one edge per consecutive pair.
C25_CompactChains ==
    (dag = NoValue /\ parsed # NoValue) =>
        \A c \in ChainInputs :
            c.text = text => parsed \in DagNew(ChainNodesOf(c.chains), ChainEdgesOf(c.chains, 1))

\* from_str has returned a graph of three nodes and three edges for two chain
\* lines, the first ended by ";" and the second not.
C25_Witness ==
    /\ dag = NoValue
    /\ parsed # NoValue
    /\ parsed.tag = "Ok"
    /\ Len(parsed.nodes) = 3
    /\ Len(parsed.edges) = 3
    /\ \E c \in ChainInputs :
          c.text = text /\ Len(c.chains) = 2 /\ c.semi[1] /\ ~c.semi[2]

(***************************************************************************)
(* Properties of the lock (LockSpec), continued.                           *)
(***************************************************************************)
\* p has taken a unit of read_count with a probing try_wait (of read_lock, of
\* write_lock or the second one of read_unlock) and not yet posted it back.
InProbe(p) == pc[p] \in {"rl_corr", "wl_corr", "ru_corr"}

\* p is a reader: it has posted read_count in read_lock() and not yet taken its unit
\* back with the first try_wait of read_unlock().
IsReader(p) == HoldsRead(p) \/ pc[p] \in {"rl_rel", "ru_try"}

\* C27: whenever no process is between a probing try_wait on read_count and the
\* post that restores it, read_count is the number of readers (read_lock() has
\* posted read_count for them and read_unlock() has not yet taken the unit back).
C27_ReadCountIsReaders ==
    (\A p \in DOMAIN pc : ~InProbe(p)) =>
        \A m \in DOMAIN rc :
            rc[m] = Cardinality({p \in DOMAIN pc : attRc[p] = m /\ IsReader(p)})

(***************************************************************************)
(* Properties of the scheduler (Spec), continued.                          *)
(***************************************************************************)
\* The compare-and-update that commits Executed for w found the node's status
\* changed: it returns Some(graph), and execute() returns the error of line 57.
CommitFailed(w) ==
    at[w] = "commit" /\ got[w] # NoGraph /\ pc[w] \in {"wu_post", "wu_ret"}

C26_WriterGetsLock ==
    \A p \in Procs : (pc[p] \in {"wl_try", "wl_corr"}) ~> (pc[p] = "wr_held")

\* The part of C26 that holds: the writer returns from write_lock() in every run in
\* which no read_unlock() returns the error of a read_count equal to 0.
C26_WriterGetsLockUnlessUnlockFails ==
    \/ \E q \in Procs : <>(pc[q] = "ru_err")
    \/ \A p \in Procs : (pc[p] \in {"wl_try", "wl_corr"}) ~> (pc[p] = "wr_held")

(***************************************************************************)
(* Progress of the scheduler (FairSpec).                                   *)
(***************************************************************************)
\* All parents of the NonExecutable node c are Executed in the graph of mapping m.
Promotable(m, c) ==
    /\ shm[m] # NoGraph
    /\ shm[m][c] = "NonExecutable"
    /\ \A q \in Parents(c) : shm[m][q] = "Executed"

\* The node c of the graph of mapping m is Executable, Executing or Executed.
Promoted(m, c) == shm[m] # NoGraph /\ shm[m][c] # "NonExecutable"

\* Some read_unlock() has returned the error of a read_count equal to 0.
UnlockFailed == \E w \in Workers : pc[w] = "ru_err"

\* C29: whenever all parents of a NonExecutable node are Executed in the shared
\* graph, the node eventually becomes Executable.
C29_NoChildForgotten ==
    \A m \in Workers : \A c \in Nodes :
        Promotable(m, c) ~> Promoted(m, c)

\* The part of C29 that holds: the runs in which no read_unlock() fails.
C29_NoChildForgottenUnlessUnlockFails ==
    \/ <>UnlockFailed
    \/ \A m \in Workers : \A c \in Nodes :
          Promotable(m, c) ~> Promoted(m, c)

\* The node n is Executable in the graph of mapping m.
Claimable(m, n) == shm[m] # NoGraph /\ shm[m][n] = "Executable"

\* The node n has been claimed in the graph of mapping m.
Claimed(m, n) == shm[m] # NoGraph /\ shm[m][n] \in {"Executing", "Executed"}

\* Every worker attached to mapping m has returned from execute().
AllReturned(m) == \A w \in Workers : att[w] = m => pc[w] \in {"ok", "err"}

\* C30: a node that is Executable in the shared graph is eventually claimed (becomes
\* Executing), unless every worker of the mapping has returned.
C30_ExecutableIsClaimed ==
    \A m \in Workers : \A n \in Nodes :
        Claimable(m, n) ~> (Claimed(m, n) \/ AllReturned(m))

\* The part of C30 that holds: the runs in which no read_unlock() fails.
C30_ExecutableIsClaimedUnlessUnlockFails ==
    \/ <>UnlockFailed
    \/ \A m \in Workers : \A n \in Nodes :
          Claimable(m, n) ~> (Claimed(m, n) \/ AllReturned(m))

(***************************************************************************)
(* C40: in every reachable state, whatever the interleaving of the         *)
(* read_lock, read_unlock, write_lock and write_unlock calls of the        *)
(* mapping's read and write, the write_lock semaphore has the value 0 or   *)
(* 1.                                                                      *)
(***************************************************************************)
C40_WriteLockBinary == \A m \in DOMAIN wl : wl[m] \in {0, 1}

\* A writer has posted write_lock back to 1 while a reader is registered and a
\* third process is about to wait on write_lock in read_lock.
C40_Witness ==
    \E p, q, r \in Procs :
        /\ pc[p] = "wu_ret"
        /\ pc[q] = "rd_held"
        /\ pc[r] = "rl_wait"
        /\ wl[att[p]] = 1

\* Process q is between a wait on write_lock and the post that gives the unit
\* back: inside read_lock, inside write_lock, holding the write lock, or about to
\* post in write_unlock.
HasWriteLockUnit(q) ==
    \/ pc[q] \in {"rl_try", "rl_corr", "rl_post", "rl_rel", "wl_try", "wl_corr", "wu_post"}
    \/ HoldsWrite(q)

\* A compare-and-swap or a per-node compare-and-update of p has returned None or
\* Some(stored value) and its caller has not yet gone on.
CasHasReturned(p) ==
    /\ pc[p] = "wu_ret"
    /\ at[p] \in {"cas", "claim", "commit", "promote"}

(***************************************************************************)
(* C31: when a compare-and-swap or a per-node compare-and-update has       *)
(* returned, on a match (None) as on a mismatch (Some), the unit of        *)
(* write_lock it took is back: write_lock is 1, so that a read_lock or a   *)
(* write_lock of another process passes its wait, or another process has   *)
(* taken the unit since.                                                   *)
(***************************************************************************)
C31_CasReleasesWriteLock ==
    \A p \in DOMAIN pc :
        CasHasReturned(p) =>
            \/ wl[att[p]] = 1
            \/ \E q \in DOMAIN pc \ {p} : att[q] = att[p] /\ HasWriteLockUnit(q)

\* The claim of w has returned Some(graph) on a mismatch, write_lock is 1 and the
\* other worker of the mapping is about to wait on it.
C31_Witness ==
    \E w, v \in Workers :
        /\ w # v
        /\ att[w] = att[v]
        /\ CasHasReturned(w)
        /\ at[w] = "claim"
        /\ got[w] # NoGraph
        /\ wl[att[w]] = 1
        /\ pc[v] \in {"rl_wait", "wl_wait"}

\* The step of w is the write of a compare-and-update that matched.
CasWrites(w) == pc[w] = "cas_write" /\ pc'[w] # pc[w]

\* The step of w belongs to a compare-and-update (write_lock, the read and the
\* comparison, write_unlock, the return) and is not the write of a match.
CasStepsNoWrite(w) ==
    /\ pc[w] \in {"wl_wait", "wl_try", "wl_corr", "wr_held", "wu_post", "wu_ret"}
    /\ at[w] \in {"claim", "commit", "promote"}
    /\ pc'[w] # pc[w]

Descendants(n) == {d \in Nodes : ReachIn(edges, n, d, NumNodes)}

\* Worker w returned an error after it claimed node[w] and before it committed it.
Aborted(w) == pc[w] = "abort"

ResetStep(w) == (at[w] = "reset" \/ at'[w] = "reset") /\ pc'[w] # pc[w]

(***************************************************************************)
(* C39: a per-node compare-and-update asked to set a node to NonExecutable *)
(* returns the error at once: its only steps are the return of the error   *)
(* and the caller's going on; neither semaphore is touched, the shared     *)
(* graph is neither changed nor read into the caller.                      *)
(***************************************************************************)
C39_NonExecutableRefused ==
    [][\A w \in Workers :
          ResetStep(w) =>
              /\ pc'[w] \in {"cas_err", "idle"}
              /\ wl' = wl
              /\ rc' = rc
              /\ shm' = shm
              /\ got'[w] = NoGraph]_vars

\* The call of w for NonExecutable has returned its error while the other process
\* holds the write lock in a call of its own, and the node w named is stored as
\* Executing.
C39_Witness ==
    \E w, v \in Workers :
        /\ pc[w] = "cas_err"
        /\ at[w] = "reset"
        /\ pc[v] = "cas_write"
        /\ wl[att[w]] = 0
        /\ shm[att[w]][node[w]] = "Executing"

\* The positions of edgeVec whose parent and child are both keys of nodes.
DeclaredEdges ==
    {j \in 1..Len(edgeVec) : edgeVec[j][1] \in DOMAIN nodes /\ edgeVec[j][2] \in DOMAIN nodes}

(***************************************************************************)
(* C37: new() adds exactly the edges of its argument whose two endpoints   *)
(* are keys of nodes.  Every edge of the graph it returns joins two of the *)
(* graph's nodes and is one of those edges, and there are as many; new()   *)
(* fails only when those edges have a cycle, never because an edge names   *)
(* an undeclared node; and a node that is the child of skipped edges only  *)
(* has the status it was given.                                            *)
(***************************************************************************)
C37_OnlyDeclaredEdges ==
    dag # NoValue =>
        LET ix == NodeIndexMap(nodes) IN
        /\ dag.tag = "Ok" =>
              /\ Len(dag.edges) = Cardinality(DeclaredEdges)
              /\ \A i \in 1..Len(dag.edges) :
                    /\ dag.edges[i][1] \in 0..(Len(dag.nodes) - 1)
                    /\ dag.edges[i][2] \in 0..(Len(dag.nodes) - 1)
                    /\ \E j \in DeclaredEdges :
                          dag.edges[i] = <<ix[edgeVec[j][1]], ix[edgeVec[j][2]]>>
              /\ \A k \in DOMAIN nodes :
                    ~HasAcceptedEdgeTo(k) =>
                        dag.nodes[ix[k] + 1].execution_status = nodes[k].execution_status
        /\ dag.tag = "Err" => \E k \in DOMAIN nodes : KeyOnCycle(k)

\* new() returned a graph with one edge from two edges, the other one skipped
\* because its parent is no key; the child it names is a node of the graph, has no
\* added edge pointing to it and is Executable as it was given.
C37_Witness ==
    /\ dag # NoValue
    /\ dag.tag = "Ok"
    /\ Len(edgeVec) = 2
    /\ Len(dag.edges) = 1
    /\ \E j \in 1..Len(edgeVec) :
          /\ edgeVec[j][1] \notin DOMAIN nodes
          /\ edgeVec[j][2] \in DOMAIN nodes
          /\ ~HasAcceptedEdgeTo(edgeVec[j][2])
          /\ nodes[edgeVec[j][2]].execution_status = "Executable"
          /\ dag.nodes[NodeIndexMap(nodes)[edgeVec[j][2]] + 1].execution_status = "Executable"

\* The node of index n has an edge pointing to it in graph g.
HasParent(g, n) == \E j \in 1..Len(g.edges) : g.edges[j][2] = n

(***************************************************************************)
(* C38: for every graph reached by scheduling, the graph parsed from its   *)
(* printed text has at every node the status the node has in the graph.    *)
(***************************************************************************)
C38_RoundTripKeepsStatuses ==
    Reparsed =>
        /\ parsed.tag = "Ok"
        /\ Len(parsed.nodes) = Len(dag.nodes)
        /\ \A i \in 1..Len(dag.nodes) :
              parsed.nodes[i].execution_status = dag.nodes[i].execution_status

\* The part of C38 that holds: the status comes back for every node that has no
\* parent, and as NonExecutable for every node that has one.
C38_RoundTripResetsChildren ==
    Reparsed =>
        /\ parsed.tag = "Ok"
        /\ Len(parsed.nodes) = Len(dag.nodes)
        /\ \A i \in 1..Len(dag.nodes) :
              parsed.nodes[i].execution_status =
                 IF HasParent(dag, i - 1) THEN "NonExecutable"
                 ELSE dag.nodes[i].execution_status

\* The mapping operation of p has ended with a failure inside read_from_shm or
\* write_to_shm: a cell that cannot be opened (the panics of lines 185 and 206) or
\* that cannot be created (the error of line 257).
OperationFailed(p) == pc[p] \in {"panic", "wts_err"}

(***************************************************************************)
(* C33: a read() or a compare-and-swap that fails after it acquired its    *)
(* lock has released the lock: once every other process is back from its   *)
(* own operation, write_lock is 1 and read_count is 0, so that a later     *)
(* read_lock or write_lock is not blocked.                                 *)
(***************************************************************************)
C33_FailureReleasesLock ==
    \A p \in Procs :
        (/\ OperationFailed(p)
         /\ at[p] \in {"read", "cas"}
         /\ \A q \in Procs \ {p} : pc[q] = "idle")
            => wl[att[p]] = WriteLockInitial /\ rc[attRc[p]] = ReadCountInitial

\* new() failed because the write_lock semaphore of the prefix exists, and execute()
\* has matched on the result.
CreateFailedOnExisting == pc = <<"matched">> /\ ret.tag = "Err"

(***************************************************************************)
(* C36: for every prefix, one with the character / included, a worker      *)
(* whose creation of the mapping failed because the write_lock semaphore   *)
(* exists takes the arm that opens the existing mapping.                   *)
(***************************************************************************)
C36_FallbackForEveryPrefix == CreateFailedOnExisting => at[1] = "open"

\* The part of C36 that holds: the fallback is taken for the prefixes without /,
\* and for no other.
C36_FallbackWithoutSlash ==
    CreateFailedOnExisting =>
        (at[1] = "open" <=> \A i \in 1..Len(text) : text[i] # "/")

(***************************************************************************)
(* C32: when write_on_equal_to_shm of the dag crate has returned           *)
(* Some(stored value) because the stored value differs from the expected   *)
(* one, write_lock is back at 1, or another process has taken the unit     *)
(* since; so a later read or write does not block.                         *)
(***************************************************************************)
C32_MismatchReleasesWriteLock ==
    \A p \in Procs :
        pc[p] = "some_ret" =>
            \/ wl[att[p]] = 1
            \/ \E q \in Procs \ {p} : HasWriteLockUnit(q)

\* The part of C32 that holds: before it returns None, after a match,
\* write_on_equal_to_shm posts write_lock back to 1.
C32_MatchReleasesWriteLock ==
    [][\A p \in Procs :
          (at[p] = "on_equal" /\ pc[p] # "wu_ret" /\ pc'[p] = "wu_ret")
              => wl[att[p]] = 0 /\ wl'[att[p]] = 1]_vars

====
